---- MODULE Spec2Model ----
(***************************************************************************)
(* The requests transport family of azure-core:                            *)
(*   RequestsTransport          (requests_basic.py,   direct / blocking)    *)
(*   AsyncioRequestsTransport   (requests_asyncio.py, asyncio loop)         *)
(*   TrioRequestsTransport      (requests_trio.py,    trio worker threads)  *)
(* The model covers the session lifecycle (open / close / context manager) *)
(* and send with its classification of the failures of the HTTP call.      *)
(***************************************************************************)
EXTENDS Integers, Sequences, FiniteSets, TLC

-----------------------------------------------------------------------------
(* Bounds *)

\* Cap on the number of session objects that exist (supplied and created).
MaxSessions == 3

\* Cap on the length of the body of a streamed response.
MaxBody == 5

\* Cap on the block size of a streamed response.
MaxBlockSize == 2

\* Cap on the number of times the raw response of a stream is closed.
MaxCloses == 2

\* The number of threads that call open() and close() on one transport.
MaxThreads == 2

\* The number of tasks of one event loop that send on one transport.
MaxTasks == 2

\* The retry budget __next__ / __anext__ start each call with.
retry_total == 3

\* The seconds __next__ / __anext__ sleep before a re-issue.
retry_interval == 1000

-----------------------------------------------------------------------------
(* Values *)

Adapters == {"basic", "asyncio", "trio"}

\* self.session = None
NoSession == 0

\* RequestsTransport._protocols
_protocols == {"http://", "https://"}

\* Retry(total=False, redirect=False, raise_on_status=False)
disable_retries == "Retry(total=False)"

\* max_retries of the adapters of a session the caller built: the library
\* default of requests.Session(), or a retrying adapter the caller mounted.
SuppliedRetries == {"Retry(0)", "Retry(3)"}

\* The requests handed to send (method and url).
Requests == {"GET /a", "PUT /b"}

\* ConnectionConfiguration(**kwargs): verify, timeout, cert, data_block_size.
connection_config ==
    [verify |-> "True", timeout |-> "100", cert |-> "None", data_block_size |-> "4096"]

\* The **kwargs of send: a function from option names to values.
NoKwargs == [n \in {} |-> "x"]

Kwargs ==
    { NoKwargs,
      [n \in {"connection_verify", "connection_timeout"} |->
          IF n = "connection_verify" THEN "False" ELSE "5"],
      [n \in {"connection_cert", "proxies"} |->
          IF n = "connection_cert" THEN "client.pem" ELSE "proxy"],
      [n \in {"allow_redirects"} |-> "True"],
      [n \in {"loop"} |-> "loop2"],
      [n \in {"trio_limiter"} |-> "limiter"] }

\* Keyword arguments the call expression of send passes itself.
ExplicitKeywords == {"headers", "data", "files", "verify", "timeout", "cert", "allow_redirects"}

\* Keyword parameters of requests.Session.request besides the ones send
\* passes explicitly.
SessionRequestKeywords == {"proxies", "stream", "hooks", "params", "auth", "cookies", "json"}

\* Status codes of the response of one HTTP exchange.
Statuses == {200, 302, 416}

IsRedirect(status) == status \in {301, 302, 303, 307, 308}

-----------------------------------------------------------------------------
(* Exceptions of the HTTP library *)

\* The classes an exception raised by session.request can have, with the
\* classes each is an instance of (requests.exceptions, urllib3.exceptions).
Bases(cls) ==
    CASE cls = "NewConnectionError"   -> {"NewConnectionError"}
      [] cls = "ReadTimeout"          -> {"ReadTimeout", "Timeout", "RequestException"}
      [] cls = "ConnectTimeout"       -> {"ConnectTimeout", "ConnectionError", "Timeout", "RequestException"}
      [] cls = "ConnectionError"      -> {"ConnectionError", "RequestException"}
      [] cls = "SSLError"             -> {"SSLError", "ConnectionError", "RequestException"}
      [] cls = "Timeout"              -> {"Timeout", "RequestException"}
      [] cls = "ChunkedEncodingError" -> {"ChunkedEncodingError", "RequestException"}
      [] cls = "RequestException"     -> {"RequestException"}
      [] cls = "StreamConsumedError"  -> {"StreamConsumedError", "RequestException", "TypeError"}
      [] cls = "ProtocolError"        -> {"ProtocolError"}
      [] cls = "MaxRetryError"        -> {"MaxRetryError"}
      [] cls = "OSError"              -> {"OSError"}
      [] OTHER                        -> {cls}

isinstance(cls, base) == base \in Bases(cls)

ExceptionClasses ==
    {"NewConnectionError", "ReadTimeout", "ConnectTimeout", "ConnectionError",
     "Timeout", "RequestException", "ProtocolError", "OSError"}

\* err.args: no argument, or one argument of the given class.
ExceptionArgs == {<<>>, <<"ProtocolError">>, <<"MaxRetryError">>}

\* What one invocation of session.request can end with.
NoOutcome == [type |-> "none", status |-> 0, cls |-> "", args |-> <<>>]

ResponseOf(status) == [type |-> "response", status |-> status, cls |-> "", args |-> <<>>]

Raise(cls, args) == [type |-> "exception", status |-> 0, cls |-> cls, args |-> args]

HttpOutcomes ==
    {ResponseOf(st) : st \in Statuses}
    \cup {Raise(c, ar) : c \in ExceptionClasses, ar \in ExceptionArgs}

-----------------------------------------------------------------------------
(* Sessions *)

\* requests.Session(): trusts the environment, default adapters mounted.
requests_Session(retries) ==
    [closes |-> 0, trust_env |-> TRUE, mounts |-> [p \in _protocols |-> retries]]

\* _init_session with the loop over the protocols left out: the session
\* keeps the adapters requests.Session() mounted.
_init_session_unmounted(t, session) ==
    [session EXCEPT !.trust_env = t._use_env_settings]

\* RequestsTransport._init_session
_init_session(t, session) ==
    [session EXCEPT !.trust_env = t._use_env_settings,
                    !.mounts = [p \in DOMAIN session.mounts \cup _protocols |->
                                   IF p \in _protocols THEN disable_retries
                                   ELSE session.mounts[p]]]

\* RequestsTransport.__init__ ; session is the id of the caller's session
\* in the session store, or NoSession.
RequestsTransport_init(session, session_owner, use_env_settings) ==
    [session |-> session,
     _session_owner |-> session_owner,
     _use_env_settings |-> use_env_settings,
     connection_config |-> connection_config]

\* open() without the test for a session already held.
open_unguarded(t, ss) ==
    IF t._session_owner
    THEN LET ss2 == Append(ss, _init_session(t, requests_Session("Retry(0)")))
         IN  [t |-> [t EXCEPT !.session = Len(ss2)], sessions |-> ss2, raised |-> "none"]
    ELSE [t |-> t, sessions |-> ss, raised |-> "none"]

\* open() that never creates a session.
open_never(t, ss) == [t |-> t, sessions |-> ss, raised |-> "none"]

\* open() that creates a session whenever none is held, owner or not.
open_any_transport(t, ss) ==
    IF t.session = NoSession
    THEN LET ss2 == Append(ss, _init_session(t, requests_Session("Retry(0)")))
         IN  [t |-> [t EXCEPT !.session = Len(ss2)], sessions |-> ss2, raised |-> "none"]
    ELSE [t |-> t, sessions |-> ss, raised |-> "none"]

\* open() that also initialises a session the transport already holds.
open_inits_held(t, ss) ==
    IF t.session = NoSession /\ t._session_owner
    THEN LET ss2 == Append(ss, _init_session(t, requests_Session("Retry(0)")))
         IN  [t |-> [t EXCEPT !.session = Len(ss2)], sessions |-> ss2, raised |-> "none"]
    ELSE IF t.session # NoSession
    THEN [t |-> t, sessions |-> [ss EXCEPT ![t.session] = _init_session(t, @)],
          raised |-> "none"]
    ELSE [t |-> t, sessions |-> ss, raised |-> "none"]

\* RequestsTransport.open, on transport t and session store ss.
open(t, ss) ==
    IF t.session = NoSession /\ t._session_owner
    THEN LET ss2 == Append(ss, _init_session(t, requests_Session("Retry(0)")))
         IN  [t |-> [t EXCEPT !.session = Len(ss2)], sessions |-> ss2, raised |-> "none"]
    ELSE [t |-> t, sessions |-> ss, raised |-> "none"]

\* close() that leaves the ownership flag set.
close_keeps_owner(t, ss) ==
    IF t._session_owner
    THEN IF t.session = NoSession
         THEN [t |-> t, sessions |-> ss, raised |-> "AttributeError"]
         ELSE [t |-> [t EXCEPT !.session = NoSession],
               sessions |-> [ss EXCEPT ![t.session].closes = @ + 1],
               raised |-> "none"]
    ELSE [t |-> t, sessions |-> ss, raised |-> "none"]

\* close() that clears the ownership flag before it closes the session.
close_flag_first(t, ss) ==
    IF t._session_owner
    THEN IF t.session = NoSession
         THEN [t |-> [t EXCEPT !._session_owner = FALSE], sessions |-> ss,
               raised |-> "AttributeError"]
         ELSE [t |-> [t EXCEPT !._session_owner = FALSE, !.session = NoSession],
               sessions |-> [ss EXCEPT ![t.session].closes = @ + 1],
               raised |-> "none"]
    ELSE [t |-> t, sessions |-> ss, raised |-> "none"]

\* close() that tests for a session instead of the ownership flag.
close_any_session(t, ss) ==
    IF t.session # NoSession
    THEN [t |-> [t EXCEPT !._session_owner = FALSE, !.session = NoSession],
          sessions |-> [ss EXCEPT ![t.session].closes = @ + 1],
          raised |-> "none"]
    ELSE [t |-> t, sessions |-> ss, raised |-> "none"]

\* RequestsTransport.close: self.session.close() on None raises before the
\* two assignments.
close(t, ss) ==
    IF t._session_owner
    THEN IF t.session = NoSession
         THEN [t |-> t, sessions |-> ss, raised |-> "AttributeError"]
         ELSE [t |-> [t EXCEPT !._session_owner = FALSE, !.session = NoSession],
               sessions |-> [ss EXCEPT ![t.session].closes = @ + 1],
               raised |-> "none"]
    ELSE [t |-> t, sessions |-> ss, raised |-> "none"]

-----------------------------------------------------------------------------
(* send: the HTTP call *)

\* kwargs.pop(name, default)
pop(kwargs, name, default) == IF name \in DOMAIN kwargs THEN kwargs[name] ELSE default

\* kwargs after the three pops of the call expression.
PassedThrough(kwargs) ==
    [n \in DOMAIN kwargs \ {"connection_verify", "connection_timeout", "connection_cert"} |->
        kwargs[n]]

NoCall ==
    [session |-> NoSession, request |-> "", verify |-> "", timeout |-> "", cert |-> "",
     allow_redirects |-> FALSE, kwargs |-> NoKwargs]

\* The call with verify taken from the configuration only.
RequestsTransport_send_call_config_verify(t, request, kwargs) ==
    [session |-> t.session,
     request |-> request,
     verify |-> t.connection_config.verify,
     timeout |-> pop(kwargs, "connection_timeout", t.connection_config.timeout),
     cert |-> pop(kwargs, "connection_cert", t.connection_config.cert),
     allow_redirects |-> FALSE,
     kwargs |-> PassedThrough(kwargs)]

\* The arguments of self.session.request(...) in RequestsTransport.send.
RequestsTransport_send_call(t, request, kwargs) ==
    [session |-> t.session,
     request |-> request,
     verify |-> pop(kwargs, "connection_verify", t.connection_config.verify),
     timeout |-> pop(kwargs, "connection_timeout", t.connection_config.timeout),
     cert |-> pop(kwargs, "connection_cert", t.connection_config.cert),
     allow_redirects |-> FALSE,
     kwargs |-> PassedThrough(kwargs)]

\* The arguments of the functools.partial in AsyncioRequestsTransport.send
\* (kwargs.get("loop") leaves the option in kwargs).
AsyncioRequestsTransport_send_call(t, request, kwargs) ==
    [session |-> t.session,
     request |-> request,
     verify |-> pop(kwargs, "connection_verify", t.connection_config.verify),
     timeout |-> pop(kwargs, "connection_timeout", t.connection_config.timeout),
     cert |-> pop(kwargs, "connection_cert", t.connection_config.cert),
     allow_redirects |-> FALSE,
     kwargs |-> PassedThrough(kwargs)]

\* The trio call with redirects left to the library.
TrioRequestsTransport_send_call_redirects(t, request, kwargs) ==
    [session |-> t.session,
     request |-> request,
     verify |-> pop(kwargs, "connection_verify", t.connection_config.verify),
     timeout |-> pop(kwargs, "connection_timeout", t.connection_config.timeout),
     cert |-> pop(kwargs, "connection_cert", t.connection_config.cert),
     allow_redirects |-> TRUE,
     kwargs |-> PassedThrough(kwargs)]

\* The arguments of the functools.partial in TrioRequestsTransport.send
\* (kwargs.get("trio_limiter") leaves the option in kwargs).
TrioRequestsTransport_send_call(t, request, kwargs) ==
    [session |-> t.session,
     request |-> request,
     verify |-> pop(kwargs, "connection_verify", t.connection_config.verify),
     timeout |-> pop(kwargs, "connection_timeout", t.connection_config.timeout),
     cert |-> pop(kwargs, "connection_cert", t.connection_config.cert),
     allow_redirects |-> FALSE,
     kwargs |-> PassedThrough(kwargs)]

\* What evaluating the call expression raises before session.request runs:
\* the attribute lookup on a None session, then a keyword given twice
\* (allow_redirects=False, **kwargs).
CallSiteError(t, kwargs) ==
    IF t.session = NoSession THEN "AttributeError"
    ELSE IF "allow_redirects" \in DOMAIN PassedThrough(kwargs) THEN "TypeError"
    ELSE "none"

\* session.request rejects a keyword it does not declare.
BindingError(call) ==
    IF DOMAIN call.kwargs \subseteq SessionRequestKeywords THEN "none" ELSE "TypeError"

\* The HTTP exchanges one session.request makes when the first exchange ends
\* with outcome h: the library follows a redirect only when allowed to.
HttpExchanges(call, h) ==
    IF call.allow_redirects /\ h.type = "response" /\ IsRedirect(h.status)
    THEN <<call, call>>
    ELSE <<call>>

\* ... and what session.request then hands back to send.
HttpResult(call, h) ==
    IF call.allow_redirects /\ h.type = "response" /\ IsRedirect(h.status)
    THEN ResponseOf(200)
    ELSE h

-----------------------------------------------------------------------------
(* send: classification of the failure of the HTTP call *)

\* The clauses with every connection error taken for a response failure.
RequestsTransport_send_except_no_root_cause(err) ==
    IF isinstance(err.cls, "NewConnectionError") THEN "ServiceRequestError"
    ELSE IF isinstance(err.cls, "ReadTimeout") THEN "ServiceResponseError"
    ELSE IF isinstance(err.cls, "ConnectionError") THEN "ServiceResponseError"
    ELSE IF isinstance(err.cls, "RequestException") THEN "ServiceRequestError"
    ELSE "raise"

\* The clauses with the second one catching every timeout of the library
\* instead of the read timeout alone.
RequestsTransport_send_except_any_timeout(err) ==
    IF isinstance(err.cls, "NewConnectionError") THEN "ServiceRequestError"
    ELSE IF isinstance(err.cls, "Timeout") THEN "ServiceResponseError"
    ELSE IF isinstance(err.cls, "ConnectionError")
         THEN IF Len(err.args) > 0 /\ isinstance(err.args[1], "ProtocolError")
              THEN "ServiceResponseError"
              ELSE "ServiceRequestError"
    ELSE IF isinstance(err.cls, "RequestException") THEN "ServiceRequestError"
    ELSE "raise"

\* The clauses without the final one for requests.RequestException.
RequestsTransport_send_except_no_general(err) ==
    IF isinstance(err.cls, "NewConnectionError") THEN "ServiceRequestError"
    ELSE IF isinstance(err.cls, "ReadTimeout") THEN "ServiceResponseError"
    ELSE IF isinstance(err.cls, "ConnectionError")
         THEN IF Len(err.args) > 0 /\ isinstance(err.args[1], "ProtocolError")
              THEN "ServiceResponseError"
              ELSE "ServiceRequestError"
    ELSE "raise"

\* The except clauses of RequestsTransport.send; "raise" stands for no
\* clause matching, the exception leaving send as it is.
RequestsTransport_send_except(err) ==
    IF isinstance(err.cls, "NewConnectionError") THEN "ServiceRequestError"
    ELSE IF isinstance(err.cls, "ReadTimeout") THEN "ServiceResponseError"
    ELSE IF isinstance(err.cls, "ConnectionError")
         THEN IF Len(err.args) > 0 /\ isinstance(err.args[1], "ProtocolError")
              THEN "ServiceResponseError"
              ELSE "ServiceRequestError"
    ELSE IF isinstance(err.cls, "RequestException") THEN "ServiceRequestError"
    ELSE "raise"

\* The clauses without the one for requests.exceptions.ReadTimeout.
AsyncioRequestsTransport_send_except_no_read_timeout(err) ==
    IF isinstance(err.cls, "NewConnectionError") THEN "ServiceRequestError"
    ELSE IF isinstance(err.cls, "ConnectionError")
         THEN IF Len(err.args) > 0 /\ isinstance(err.args[1], "ProtocolError")
              THEN "ServiceResponseError"
              ELSE "ServiceRequestError"
    ELSE IF isinstance(err.cls, "RequestException") THEN "ServiceRequestError"
    ELSE "raise"

\* The except clauses of AsyncioRequestsTransport.send.
AsyncioRequestsTransport_send_except(err) ==
    IF isinstance(err.cls, "NewConnectionError") THEN "ServiceRequestError"
    ELSE IF isinstance(err.cls, "ReadTimeout") THEN "ServiceResponseError"
    ELSE IF isinstance(err.cls, "ConnectionError")
         THEN IF Len(err.args) > 0 /\ isinstance(err.args[1], "ProtocolError")
              THEN "ServiceResponseError"
              ELSE "ServiceRequestError"
    ELSE IF isinstance(err.cls, "RequestException") THEN "ServiceRequestError"
    ELSE "raise"

\* The clauses followed by one that takes every other exception for a
\* request failure.
TrioRequestsTransport_send_except_catch_all(err) ==
    IF isinstance(err.cls, "NewConnectionError") THEN "ServiceRequestError"
    ELSE IF isinstance(err.cls, "ReadTimeout") THEN "ServiceResponseError"
    ELSE IF isinstance(err.cls, "ConnectionError")
         THEN IF Len(err.args) > 0 /\ isinstance(err.args[1], "ProtocolError")
              THEN "ServiceResponseError"
              ELSE "ServiceRequestError"
    ELSE "ServiceRequestError"

\* The clauses with the protocol error looked for in the exception itself
\* instead of its first argument.
TrioRequestsTransport_send_except_own_class(err) ==
    IF isinstance(err.cls, "NewConnectionError") THEN "ServiceRequestError"
    ELSE IF isinstance(err.cls, "ReadTimeout") THEN "ServiceResponseError"
    ELSE IF isinstance(err.cls, "ConnectionError")
         THEN IF isinstance(err.cls, "ProtocolError")
              THEN "ServiceResponseError"
              ELSE "ServiceRequestError"
    ELSE IF isinstance(err.cls, "RequestException") THEN "ServiceRequestError"
    ELSE "raise"

\* The clauses without the one for urllib3 NewConnectionError.
TrioRequestsTransport_send_except_no_new_connection(err) ==
    IF isinstance(err.cls, "ReadTimeout") THEN "ServiceResponseError"
    ELSE IF isinstance(err.cls, "ConnectionError")
         THEN IF Len(err.args) > 0 /\ isinstance(err.args[1], "ProtocolError")
              THEN "ServiceResponseError"
              ELSE "ServiceRequestError"
    ELSE IF isinstance(err.cls, "RequestException") THEN "ServiceRequestError"
    ELSE "raise"

\* The except clauses of TrioRequestsTransport.send.
TrioRequestsTransport_send_except(err) ==
    IF isinstance(err.cls, "NewConnectionError") THEN "ServiceRequestError"
    ELSE IF isinstance(err.cls, "ReadTimeout") THEN "ServiceResponseError"
    ELSE IF isinstance(err.cls, "ConnectionError")
         THEN IF Len(err.args) > 0 /\ isinstance(err.args[1], "ProtocolError")
              THEN "ServiceResponseError"
              ELSE "ServiceRequestError"
    ELSE IF isinstance(err.cls, "RequestException") THEN "ServiceRequestError"
    ELSE "raise"

\* The record of the last operation on a transport: what was called, the
\* session and ownership flag the transport had when it was called, the
\* HTTP exchanges it made, the outcome of the HTTP call, and how the
\* operation ended: kind is "Response", the class of the exception raised,
\* or "None" for a plain return; error is the exception a Service*Error
\* carries.
NoLast ==
    [op |-> "init", before |-> [session |-> NoSession, _session_owner |-> FALSE],
     request |-> "", kwargs |-> NoKwargs, exchanges |-> <<>>,
     http |-> NoOutcome, kind |-> "None", status |-> 0, error |-> NoOutcome]

Before(t) == [session |-> t.session, _session_owner |-> t._session_owner]

Returned(op, t, raised) ==
    [NoLast EXCEPT !.op = op, !.before = Before(t),
                   !.kind = IF raised = "none" THEN "None" ELSE raised]

\* send ends before any HTTP exchange: the exception leaves send unwrapped
\* ("awaiting": an async send suspended at its await).
SendRaised(t, request, kwargs, raised) ==
    [NoLast EXCEPT !.op = "send", !.before = Before(t), !.request = request,
                   !.kwargs = kwargs, !.kind = raised]

\* The end of send once session.request has run with first outcome h and
\* the except clauses have given k for an exception: "if error: raise error",
\* else the response wrapped in a transport response.
SendCompleted(t, k, request, kwargs, call, h) ==
    LET res == HttpResult(call, h)
        base == [NoLast EXCEPT !.op = "send", !.before = Before(t),
                               !.request = request, !.kwargs = kwargs,
                               !.exchanges = HttpExchanges(call, h), !.http = h]
    IN  IF res.type = "response"
        THEN [base EXCEPT !.kind = "Response", !.status = res.status]
        ELSE IF k = "raise"
             THEN [base EXCEPT !.kind = res.cls]
             ELSE [base EXCEPT !.kind = k, !.error = res]

-----------------------------------------------------------------------------
(* Stream download generators: values *)

\* Python values that meet in the arithmetic of the generators.
PyInt(n) == [t |-> "int", v |-> n]

PyStr(s) == [t |-> "str", v |-> s]

PyBytes(b) == [t |-> "bytes", v |-> b]

PyTypeError == [t |-> "TypeError", v |-> 0]

\* x + y of Python: defined between two values of the same type only.
py_add(x, y) ==
    IF x.t = "int" /\ y.t = "int" THEN PyInt(x.v + y.v)
    ELSE IF x.t = "str" /\ y.t = "str" THEN PyStr(x.v \o y.v)
    ELSE IF x.t = "bytes" /\ y.t = "bytes" THEN PyBytes(x.v \o y.v)
    ELSE PyTypeError

\* The three generator classes.
Variants == {"StreamDownloadGenerator", "AsyncioStreamDownloadGenerator",
             "TrioStreamDownloadGenerator"}

\* response.block_size values the generator is constructed with.
BlockSizes == 1..MaxBlockSize

\* The body of the response: N distinct bytes.
Bodies == {[i \in 1..n |-> i] : n \in 0..MaxBody}

\* The number of chunks iter_content(block_size) cuts a body into.
NChunks(body, block_size) == (Len(body) + block_size - 1) \div block_size

\* The i-th chunk iter_content(block_size) yields.
Chunk(body, block_size, i) ==
    SubSeq(body, (i - 1) * block_size + 1,
           IF i * block_size < Len(body) THEN i * block_size ELSE Len(body))

\* Statuses with which the pipeline answers a ranged re-issue.
RangeStatuses == {206, 416}

\* The classes an exception raised by a pull on the content iterator can have.
PullExceptionClasses ==
    {"ConnectionError", "ChunkedEncodingError", "ConnectTimeout",
     "StreamConsumedError", "ReadTimeout", "OSError"}

\* What one pull on the content iterator can end with: a chunk, an empty
\* chunk, the end of the iteration, or an exception.
NoPull == [kind |-> "none", chunk |-> <<>>, cls |-> ""]

PullChunk(c) == [kind |-> "chunk", chunk |-> c, cls |-> ""]

PullEnd == [kind |-> "end", chunk |-> <<>>, cls |-> ""]

PullRaise(cls) == [kind |-> "raise", chunk |-> <<>>, cls |-> cls]

\* The outcomes the next pull on the content iterator of raw response r can
\* have.  iter_content is a generator: it yields the chunks of the body in
\* order and then ends, and once it has raised or ended it only ends.
IterOutcomes(r, block_size) ==
    IF r.iter = "finished" THEN {PullEnd}
    ELSE (IF r.pos < NChunks(r.body, block_size)
          THEN {PullChunk(Chunk(r.body, block_size, r.pos + 1))}
          ELSE {PullEnd})
         \cup {PullChunk(<<>>)}
         \cup {PullRaise(c) : c \in PullExceptionClasses}

\* The raw response after a pull that ended with o.
Pulled(r, o) ==
    IF o.kind = "chunk" /\ o.chunk # <<>> THEN [r EXCEPT !.pos = @ + 1]
    ELSE IF o.kind \in {"end", "raise"} THEN [r EXCEPT !.iter = "finished"]
    ELSE r

\* internal_response.close()
internal_response_close(r) == [r EXCEPT !.closes = @ + 1]

\* pipeline.run(request, stream=True, headers=headers)
pipeline_run(p, headers) == [p EXCEPT !.runs = Append(@, headers)]

\* The decimal digits of n, as the Content-Length header carries them.
RECURSIVE Digits(_)
Digits(n) == IF n < 10 THEN <<n>> ELSE Append(Digits(n \div 10), n % 10)

\* int(s) of a string of decimal digits.
RECURSIVE int(_)
int(s) == IF s = <<>> THEN 0 ELSE 10 * int(SubSeq(s, 1, Len(s) - 1)) + s[Len(s)]

\* The response headers: without Content-Length, or with one that is the
\* length of the body or another length.
NoHeaders == [has_content_length |-> FALSE, content_length |-> <<>>]

HeadersOf(body) ==
    {NoHeaders}
    \cup {[has_content_length |-> TRUE, content_length |-> Digits(n)] :
             n \in {Len(body), Len(body) + 10}}

\* headers.get('Content-Length', 0)
headers_get_content_length(headers) ==
    IF headers.has_content_length THEN headers.content_length ELSE Digits(0)

\* The generator object as its constructor leaves it.
StreamDownloadGenerator_init(variant, block_size, headers) ==
    [variant |-> variant,
     block_size |-> block_size,
     content_length |-> int(headers_get_content_length(headers)),
     downloaded |-> PyInt(0)]

\* len(generator)
\* (a generator that reported the bytes delivered so far)
__len___downloaded(g) == g.downloaded.v

__len__(g) == g.content_length

\* The locals of __next__ / __anext__ when they enter the loop.
NextLocals_spent == [retry_active |-> TRUE, retry_total |-> 1]

NextLocals == [retry_active |-> TRUE, retry_total |-> retry_total]

\* How one pass through the body of the loop ends: with a chunk returned
\* ("chunk"), the completion signal raised ("complete"), another exception
\* raised ("raise"), or the end of the body reached ("continue").
LoopResult(g, r, p, f, kind, chunk, cls, steps) ==
    [gen |-> g, raw |-> r, pipe |-> p, locals |-> f,
     kind |-> kind, chunk |-> chunk, cls |-> cls, steps |-> steps,
     pulls |-> Cardinality({i \in DOMAIN steps : steps[i].op = "pull"})]

\* A step of a call that takes time: a pull on the content iterator, a sleep
\* or a run of the pipeline; made directly on the thread that runs the call
\* ("direct"), handed to a worker thread while the call is suspended
\* ("worker"), or a sleep of the event loop that suspends the call ("suspend").
Step(op, how, duration) == [op |-> op, how |-> how, duration |-> duration]

\* The first k steps of a path through the handler.
Steps(path, k) == SubSeq(path, 1, k)

\* The steps of __next__ in the order of its statements: next(), and in the
\* handler of a transient failure time.sleep(), pipeline.run() and next().
StreamDownloadGenerator_path ==
    <<Step("pull", "direct", 0), Step("sleep", "direct", retry_interval),
      Step("run", "direct", 0), Step("pull", "direct", 0)>>

\* The asyncio __anext__ with next() called in the coroutine itself.
AsyncioStreamDownloadGenerator_path_pull_on_loop ==
    <<Step("pull", "direct", 0), Step("sleep", "suspend", retry_interval),
      Step("run", "direct", 0), Step("pull", "direct", 0)>>

\* The steps of the asyncio __anext__: run_in_executor(_iterate_response_content),
\* and in the handler asyncio.sleep(), pipeline.run() and run_in_executor().
AsyncioStreamDownloadGenerator_path ==
    <<Step("pull", "worker", 0), Step("sleep", "suspend", retry_interval),
      Step("run", "direct", 0), Step("pull", "worker", 0)>>

\* The steps of the trio __anext__: run_sync_in_worker_thread(_iterate_response_content),
\* and in the handler trio.sleep(1000), pipeline.run() and run_sync_in_worker_thread().
TrioStreamDownloadGenerator_path ==
    <<Step("pull", "worker", 0), Step("sleep", "suspend", 1000),
      Step("run", "direct", 0), Step("pull", "worker", 0)>>

\* not chunk
not_chunk_or_short(chunk) == Len(chunk) <= 1

\* (a test that no chunk passes)
not_chunk_never(chunk) == FALSE

not_chunk(chunk) == chunk = <<>>

\* except (requests.exceptions.ChunkedEncodingError, requests.exceptions.ConnectionError)
IsTransient_RequestException(cls) == isinstance(cls, "RequestException")

IsTransient(cls) ==
    isinstance(cls, "ChunkedEncodingError") \/ isinstance(cls, "ConnectionError")

\* {'range': 'bytes=' + self.downloaded + '-'}
range_header(g) == py_add(py_add(PyStr("bytes="), g.downloaded), PyStr("-"))

-----------------------------------------------------------------------------
(* StreamDownloadGenerator.__next__ *)

\* (a handler whose own failure is caught by the except Exception clause of
\* the same try statement, which closes the raw response)
StreamDownloadGenerator_except_transient_rehandled(g, r, p, f, o1, o2) ==
    LoopResult(g, internal_response_close(r), p, [f EXCEPT !.retry_total = @ - 1],
               "raise", <<>>, "TypeError", Steps(StreamDownloadGenerator_path, 2))

\* The handler of a transient failure o1 of the pull, with o2 the outcome of
\* the pull it makes after the re-issue.
StreamDownloadGenerator_except_transient(g, r, p, f, o1, o2) ==
    LET f1 == [f EXCEPT !.retry_total = @ - 1]
        headers == range_header(g)
        r2 == Pulled(r, o2)
        downloaded == py_add(g.downloaded, PyBytes(o2.chunk))
    IN  IF f1.retry_total <= 0
        THEN LoopResult(g, r, p, [f1 EXCEPT !.retry_active = FALSE],
                        "continue", <<>>, "", Steps(StreamDownloadGenerator_path, 1))
        ELSE IF headers.t = "TypeError"
        THEN LoopResult(g, r, p, f1,
                        "raise", <<>>, "TypeError", Steps(StreamDownloadGenerator_path, 2))
        ELSE IF p.status = 416
        THEN LoopResult(g, r, pipeline_run(p, headers), f1,
                        "raise", <<>>, o1.cls, Steps(StreamDownloadGenerator_path, 3))
        ELSE IF o2.kind = "raise"
        THEN LoopResult(g, r2, pipeline_run(p, headers), f1,
                        "raise", <<>>, o2.cls, Steps(StreamDownloadGenerator_path, 4))
        ELSE IF o2.kind = "end" \/ not_chunk(o2.chunk)
        THEN LoopResult(g, r2, pipeline_run(p, headers), f1,
                        "complete", <<>>, "StopIteration", Steps(StreamDownloadGenerator_path, 4))
        ELSE IF downloaded.t = "TypeError"
        THEN LoopResult(g, r2, pipeline_run(p, headers), f1,
                        "raise", <<>>, "TypeError", Steps(StreamDownloadGenerator_path, 4))
        ELSE LoopResult([g EXCEPT !.downloaded = downloaded], r2,
                        pipeline_run(p, headers), f1, "chunk", o2.chunk,
                             "", Steps(StreamDownloadGenerator_path, 4))

\* The handler of any other exception: close the raw response and re-raise.
StreamDownloadGenerator_except_Exception_no_close(g, r, p, f, o1) ==
    LoopResult(g, r, p, f, "raise", <<>>, o1.cls, Steps(StreamDownloadGenerator_path, 1))

StreamDownloadGenerator_except_Exception(g, r, p, f, o1) ==
    LoopResult(g, internal_response_close(r), p, f,
                    "raise", <<>>, o1.cls, Steps(StreamDownloadGenerator_path, 1))

\* The handler of StopIteration: close the raw response and raise StopIteration.
StreamDownloadGenerator_except_StopIteration_no_close(g, r, p, f) ==
    LoopResult(g, r, p, f,
                    "complete", <<>>, "StopIteration", Steps(StreamDownloadGenerator_path, 1))

StreamDownloadGenerator_except_StopIteration_rewind(g, r, p, f) ==
    LoopResult(g, internal_response_close([r EXCEPT !.iter = "live", !.pos = 0]), p, f,
               "complete", <<>>, "StopIteration", Steps(StreamDownloadGenerator_path, 1))

StreamDownloadGenerator_except_StopIteration(g, r, p, f) ==
    LoopResult(g, internal_response_close(r), p, f,
                    "complete", <<>>, "StopIteration", Steps(StreamDownloadGenerator_path, 1))

\* self.downloaded += self.block_size; return chunk
StreamDownloadGenerator_return_chunk_counted(g, r, p, f, chunk) ==
    LoopResult([g EXCEPT !.downloaded = py_add(@, PyInt(Len(chunk)))],
               r, p, f, "chunk", chunk, "", Steps(StreamDownloadGenerator_path, 1))

StreamDownloadGenerator_return_chunk(g, r, p, f, chunk) ==
    LoopResult([g EXCEPT !.downloaded = py_add(@, PyInt(g.block_size))],
               r, p, f, "chunk", chunk, "", Steps(StreamDownloadGenerator_path, 1))

\* The body of the loop without the clause for StreamConsumedError, which
\* then falls to the clause for any other exception.
StreamDownloadGenerator_loop_body_no_consumed_clause(g, r, p, f, o1, o2) ==
    LET r1 == Pulled(r, o1)
    IN  IF o1.kind = "chunk" /\ ~not_chunk(o1.chunk)
        THEN StreamDownloadGenerator_return_chunk(g, r1, p, f, o1.chunk)
        ELSE IF o1.kind \in {"chunk", "end"}
        THEN StreamDownloadGenerator_except_StopIteration(g, r1, p, f)
        ELSE IF IsTransient(o1.cls)
        THEN StreamDownloadGenerator_except_transient(g, r1, p, f, o1, o2)
        ELSE StreamDownloadGenerator_except_Exception(g, r1, p, f, o1)

\* One pass through the body of the loop of __next__: the pull ends with o1.
StreamDownloadGenerator_loop_body(g, r, p, f, o1, o2) ==
    LET r1 == Pulled(r, o1)
    IN  IF o1.kind = "chunk" /\ ~not_chunk(o1.chunk)
        THEN StreamDownloadGenerator_return_chunk(g, r1, p, f, o1.chunk)
        ELSE IF o1.kind \in {"chunk", "end"}
        THEN StreamDownloadGenerator_except_StopIteration(g, r1, p, f)
        ELSE IF IsTransient(o1.cls)
        THEN StreamDownloadGenerator_except_transient(g, r1, p, f, o1, o2)
        ELSE IF isinstance(o1.cls, "StreamConsumedError")
        THEN LoopResult(g, r1, p, f, "raise", <<>>, o1.cls, Steps(StreamDownloadGenerator_path, 1))
        ELSE StreamDownloadGenerator_except_Exception(g, r1, p, f, o1)

-----------------------------------------------------------------------------
(* AsyncioStreamDownloadGenerator.__anext__ *)

\* One pass through the body of the loop of __anext__: the awaited pull ends
\* with o1 (its end is _ResponseStopIteration), and o2 is the outcome of the
\* pull awaited after the re-issue.
AsyncioStreamDownloadGenerator_loop_body(g, r, p, f, o1, o2) ==
    LET steps(k) == Steps(AsyncioStreamDownloadGenerator_path, k)
        r1 == Pulled(r, o1)
        f1 == [f EXCEPT !.retry_total = @ - 1]
        headers == py_add(py_add(PyStr("bytes="), g.downloaded), PyStr("-"))
        r2 == Pulled(r1, o2)
        downloaded == py_add(g.downloaded, PyBytes(o2.chunk))
    IN  IF o1.kind = "chunk" /\ o1.chunk # <<>>
        THEN LoopResult([g EXCEPT !.downloaded = py_add(@, PyInt(g.block_size))],
                        r1, p, f, "chunk", o1.chunk,
                             "", steps(1))
        ELSE IF o1.kind \in {"chunk", "end"}
        THEN LoopResult(g, internal_response_close(r1), p, f,
                             "complete", <<>>, "StopAsyncIteration", steps(1))
        ELSE IF isinstance(o1.cls, "ChunkedEncodingError")
                \/ isinstance(o1.cls, "ConnectionError")
        THEN IF f1.retry_total <= 0
             THEN LoopResult(g, r1, p, [f1 EXCEPT !.retry_active = FALSE],
                             "continue", <<>>, "", steps(1))
             ELSE IF headers.t = "TypeError"
             THEN LoopResult(g, r1, p, f1,
                             "raise", <<>>, "TypeError", steps(2))
             ELSE IF p.status = 416
             THEN LoopResult(g, r1, pipeline_run(p, headers), f1,
                             "raise", <<>>, o1.cls, steps(3))
             ELSE IF o2.kind = "raise"
             THEN LoopResult(g, r2, pipeline_run(p, headers), f1,
                             "raise", <<>>, o2.cls, steps(4))
             ELSE IF o2.kind = "end"
             THEN LoopResult(g, r2, pipeline_run(p, headers), f1,
                             "raise", <<>>, "_ResponseStopIteration", steps(4))
             ELSE IF o2.chunk = <<>>
             THEN LoopResult(g, r2, pipeline_run(p, headers), f1,
                             "raise", <<>>, "RuntimeError", steps(4))
             ELSE IF downloaded.t = "TypeError"
             THEN LoopResult(g, r2, pipeline_run(p, headers), f1,
                             "raise", <<>>, "TypeError", steps(4))
             ELSE LoopResult([g EXCEPT !.downloaded = downloaded], r2,
                             pipeline_run(p, headers), f1, "chunk", o2.chunk,
                             "", steps(4))
        ELSE IF isinstance(o1.cls, "StreamConsumedError")
        THEN LoopResult(g, r1, p, f,
                             "raise", <<>>, o1.cls, steps(1))
        ELSE LoopResult(g, internal_response_close(r1), p, f,
                             "raise", <<>>, o1.cls, steps(1))

-----------------------------------------------------------------------------
(* TrioStreamDownloadGenerator.__anext__ *)

\* One pass through the body of the loop of __anext__: the awaited pull ends
\* with o1 (its end is _ResponseStopIteration), and o2 is the outcome of the
\* pull awaited after the re-issue.
TrioStreamDownloadGenerator_loop_body_consumed_closes(g, r, p, f, o1, o2) ==
    IF o1.kind = "raise" /\ isinstance(o1.cls, "StreamConsumedError")
    THEN LoopResult(g, internal_response_close(Pulled(r, o1)), p, f,
                    "raise", <<>>, o1.cls, Steps(TrioStreamDownloadGenerator_path, 1))
    ELSE AsyncioStreamDownloadGenerator_loop_body(g, r, p, f, o1, o2)

TrioStreamDownloadGenerator_loop_body(g, r, p, f, o1, o2) ==
    LET steps(k) == Steps(TrioStreamDownloadGenerator_path, k)
        r1 == Pulled(r, o1)
        f1 == [f EXCEPT !.retry_total = @ - 1]
        headers == py_add(py_add(PyStr("bytes="), g.downloaded), PyStr("-"))
        r2 == Pulled(r1, o2)
        downloaded == py_add(g.downloaded, PyBytes(o2.chunk))
    IN  IF o1.kind = "chunk" /\ o1.chunk # <<>>
        THEN LoopResult([g EXCEPT !.downloaded = py_add(@, PyInt(g.block_size))],
                        r1, p, f, "chunk", o1.chunk, "", steps(1))
        ELSE IF o1.kind \in {"chunk", "end"}
        THEN LoopResult(g, internal_response_close(r1), p, f,
                             "complete", <<>>, "StopAsyncIteration", steps(1))
        ELSE IF isinstance(o1.cls, "ChunkedEncodingError")
                \/ isinstance(o1.cls, "ConnectionError")
        THEN IF f1.retry_total <= 0
             THEN LoopResult(g, r1, p, [f1 EXCEPT !.retry_active = FALSE],
                             "continue", <<>>, "", steps(1))
             ELSE IF headers.t = "TypeError"
             THEN LoopResult(g, r1, p, f1,
                             "raise", <<>>, "TypeError", steps(2))
             ELSE IF p.status = 416
             THEN LoopResult(g, r1, pipeline_run(p, headers), f1,
                             "raise", <<>>, o1.cls, steps(3))
             ELSE IF o2.kind = "raise"
             THEN LoopResult(g, r2, pipeline_run(p, headers), f1,
                             "raise", <<>>, o2.cls, steps(4))
             ELSE IF o2.kind = "end"
             THEN LoopResult(g, r2, pipeline_run(p, headers), f1,
                             "raise", <<>>, "_ResponseStopIteration", steps(4))
             ELSE IF o2.chunk = <<>>
             THEN LoopResult(g, r2, pipeline_run(p, headers), f1,
                             "raise", <<>>, "RuntimeError", steps(4))
             ELSE IF downloaded.t = "TypeError"
             THEN LoopResult(g, r2, pipeline_run(p, headers), f1,
                             "raise", <<>>, "TypeError", steps(4))
             ELSE LoopResult([g EXCEPT !.downloaded = downloaded], r2,
                             pipeline_run(p, headers), f1, "chunk", o2.chunk,
                             "", steps(4))
        ELSE IF isinstance(o1.cls, "StreamConsumedError")
        THEN LoopResult(g, r1, p, f,
                             "raise", <<>>, o1.cls, steps(1))
        ELSE LoopResult(g, internal_response_close(r1), p, f,
                             "raise", <<>>, o1.cls, steps(1))

-----------------------------------------------------------------------------
(* State *)

VARIABLES
    ctor,       \* per transport: the keyword arguments it was constructed with
    tr,         \* per transport: session, _session_owner, _use_env_settings, connection_config
    sessions,   \* the session objects, by id 1..Len(sessions)
    pending,    \* per transport: the send suspended at its await, if any
    last,       \* per transport: the record of the last operation
    mock,       \* the HTTP layer under the sessions: live, or fixed to one behaviour
    gen,        \* the stream download generator: variant, block_size, content_length, downloaded
    raw,        \* its raw response: body, content iterator, number of times closed
    pipe,       \* its pipeline: the status a ranged re-issue is answered with, the runs made
    frame,      \* the call of __next__ / __anext__ in progress, with its locals
    pulls,      \* what the caller of the generator has seen, and what the iterator did
    threads     \* the threads that call open() and close() on one transport, statement by statement

transport == <<ctor, tr, sessions, pending, last, mock>>

stream == <<gen, raw, pipe, frame, pulls>>

vars == <<ctor, tr, sessions, pending, last, mock, gen, raw, pipe, frame, pulls, threads>>

NoPending == [active |-> FALSE, request |-> "", kwargs |-> NoKwargs, call |-> NoCall]

LiveLayer == [fixed |-> FALSE, request |-> "", kwargs |-> NoKwargs, http |-> NoOutcome]

\* The inputs a send can meet under the current HTTP layer.
SendRequests == IF mock.fixed THEN {mock.request} ELSE Requests

SendKwargs == IF mock.fixed THEN {mock.kwargs} ELSE Kwargs

SendOutcomes == IF mock.fixed THEN {mock.http} ELSE HttpOutcomes

\* The generator of a response that is not streamed.
NoFrame == [active |-> FALSE, retry_active |-> FALSE, retry_total |-> 0]

NoPulls ==
    [emitted |-> <<>>, transients |-> 0, disturbed |-> FALSE,
     last |-> [kind |-> "none", chunk |-> <<>>, cls |-> "", met |-> NoPull,
               pulls |-> 0, steps |-> <<>>, runs |-> 0, closes |-> 0, retry_total |-> 0,
               downloaded |-> PyInt(0)]]

\* No thread is inside open() or close().
Idle == [pc |-> "idle", done |-> "none", raised |-> "none"]

NoThreads == [of |-> [th \in {} |-> Idle], overlapped |-> FALSE]

NoStream ==
    /\ gen = StreamDownloadGenerator_init("none", 1, NoHeaders)
    /\ raw = [body |-> <<>>, headers |-> NoHeaders, pos |-> 0, iter |-> "finished", closes |-> 0]
    /\ pipe = [status |-> 206, runs |-> <<>>]
    /\ frame = NoFrame
    /\ pulls = NoPulls

\* One transport of any of the three classes, constructed with any
\* combination of session, session_owner and use_env_settings.
Init ==
    \E a \in Adapters, supplied \in {"none"} \cup SuppliedRetries,
       owner \in BOOLEAN, env \in BOOLEAN :
        LET sid == IF supplied = "none" THEN NoSession ELSE 1
        IN  /\ sessions = IF supplied = "none" THEN <<>> ELSE <<requests_Session(supplied)>>
            /\ ctor = [x \in {a} |-> [session |-> sid, session_owner |-> owner,
                                      use_env_settings |-> env]]
            /\ tr = [x \in {a} |-> RequestsTransport_init(sid, owner, env)]
            /\ pending = [x \in {a} |-> NoPending]
            /\ last = [x \in {a} |-> NoLast]
            /\ mock = LiveLayer
            /\ NoStream
            /\ threads = NoThreads

\* open() creates a session object only while the store has room.
Room(t) == Len(open(t, sessions).sessions) <= MaxSessions

-----------------------------------------------------------------------------
(* Operations *)

\* transport.open()
Open(a) ==
    /\ Room(tr[a])
    /\ LET o == open(tr[a], sessions)
       IN  /\ tr' = [tr EXCEPT ![a] = o.t]
           /\ sessions' = o.sessions
           /\ last' = [last EXCEPT ![a] = Returned("open", tr[a], o.raised)]
    /\ UNCHANGED <<ctor, pending, mock, stream, threads>>

\* transport.close()
Close(a) ==
    /\ LET c == close(tr[a], sessions)
       IN  /\ tr' = [tr EXCEPT ![a] = c.t]
           /\ sessions' = c.sessions
           /\ last' = [last EXCEPT ![a] = Returned("close", tr[a], c.raised)]
    /\ UNCHANGED <<ctor, pending, mock, stream, threads>>

\* RequestsTransport.__enter__, and __aenter__ of the two async transports,
\* which call it without awaiting anything.
Enter(a) ==
    /\ Room(tr[a])
    /\ LET o == open(tr[a], sessions)
       IN  /\ tr' = [tr EXCEPT ![a] = o.t]
           /\ sessions' = o.sessions
           /\ last' = [last EXCEPT ![a] = Returned("enter", tr[a], o.raised)]
    /\ UNCHANGED <<ctor, pending, mock, stream, threads>>

\* RequestsTransport.__exit__, and __aexit__ of the two async transports.
Exit(a) ==
    /\ LET c == close(tr[a], sessions)
       IN  /\ tr' = [tr EXCEPT ![a] = c.t]
           /\ sessions' = c.sessions
           /\ last' = [last EXCEPT ![a] = Returned("exit", tr[a], c.raised)]
    /\ UNCHANGED <<ctor, pending, mock, stream, threads>>

\* RequestsTransport.send: open, the HTTP call, the classification, all on
\* the caller's thread.
RequestsTransport_send(a) ==
    /\ a = "basic"
    /\ Room(tr[a])
    /\ LET o == open(tr[a], sessions)
       IN  /\ tr' = [tr EXCEPT ![a] = o.t]
           /\ sessions' = o.sessions
           /\ \E request \in SendRequests, kwargs \in SendKwargs :
                LET call == RequestsTransport_send_call(o.t, request, kwargs)
                IN  IF CallSiteError(o.t, kwargs) # "none"
                    THEN last' = [last EXCEPT ![a] =
                                     SendRaised(tr[a], request, kwargs, CallSiteError(o.t, kwargs))]
                    ELSE IF BindingError(call) # "none"
                    THEN last' = [last EXCEPT ![a] =
                                     SendRaised(tr[a], request, kwargs, BindingError(call))]
                    ELSE \E h \in SendOutcomes :
                           last' = [last EXCEPT ![a] =
                                       SendCompleted(tr[a], RequestsTransport_send_except(HttpResult(call, h)),
                                                     request, kwargs, call, h)]
    /\ UNCHANGED <<ctor, pending, mock, stream, threads>>

\* An async send up to its await: open() and the building of the partial
\* run on the loop; the call is handed to a worker thread.
SendToWorker(a, call, request, kwargs) ==
    /\ ~pending[a].active
    /\ Room(tr[a])
    /\ LET o == open(tr[a], sessions)
       IN  /\ tr' = [tr EXCEPT ![a] = o.t]
           /\ sessions' = o.sessions
           /\ IF CallSiteError(o.t, kwargs) # "none"
              THEN /\ last' = [last EXCEPT ![a] =
                                  SendRaised(tr[a], request, kwargs, CallSiteError(o.t, kwargs))]
                   /\ UNCHANGED pending
              ELSE /\ pending' = [pending EXCEPT ![a] =
                                     [active |-> TRUE, request |-> request,
                                      kwargs |-> kwargs, call |-> call]]
                   /\ last' = [last EXCEPT ![a] = SendRaised(tr[a], request, kwargs, "awaiting")]
    /\ UNCHANGED <<ctor, mock, stream, threads>>

\* AsyncioRequestsTransport.send, up to "await loop.run_in_executor(...)".
AsyncioRequestsTransport_send(a) ==
    /\ a = "asyncio"
    /\ \E request \in SendRequests, kwargs \in SendKwargs :
         SendToWorker(a, AsyncioRequestsTransport_send_call(open(tr[a], sessions).t, request, kwargs),
                      request, kwargs)

\* TrioRequestsTransport.send, up to "await trio.run_sync_in_worker_thread(...)".
TrioRequestsTransport_send(a) ==
    /\ a = "trio"
    /\ \E request \in SendRequests, kwargs \in SendKwargs :
         SendToWorker(a, TrioRequestsTransport_send_call(open(tr[a], sessions).t, request, kwargs),
                      request, kwargs)

\* AsyncioRequestsTransport.send from the await on: the worker has run
\* session.request; the except clauses, then raise or return.
AsyncioRequestsTransport_send_resume(a) ==
    /\ a = "asyncio"
    /\ pending[a].active
    /\ LET p == pending[a]
       IN  IF BindingError(p.call) # "none"
           THEN last' = [last EXCEPT ![a] = SendRaised(tr[a], p.request, p.kwargs, BindingError(p.call))]
           ELSE \E h \in SendOutcomes :
                  last' = [last EXCEPT ![a] =
                              SendCompleted(tr[a], AsyncioRequestsTransport_send_except(HttpResult(p.call, h)),
                                            p.request, p.kwargs, p.call, h)]
    /\ pending' = [pending EXCEPT ![a] = NoPending]
    /\ UNCHANGED <<ctor, tr, sessions, mock, stream, threads>>

\* TrioRequestsTransport.send from the await on.
TrioRequestsTransport_send_resume(a) ==
    /\ a = "trio"
    /\ pending[a].active
    /\ LET p == pending[a]
       IN  IF BindingError(p.call) # "none"
           THEN last' = [last EXCEPT ![a] = SendRaised(tr[a], p.request, p.kwargs, BindingError(p.call))]
           ELSE \E h \in SendOutcomes :
                  last' = [last EXCEPT ![a] =
                              SendCompleted(tr[a], TrioRequestsTransport_send_except(HttpResult(p.call, h)),
                                            p.request, p.kwargs, p.call, h)]
    /\ pending' = [pending EXCEPT ![a] = NoPending]
    /\ UNCHANGED <<ctor, tr, sessions, mock, stream, threads>>

Next ==
    \E a \in DOMAIN tr :
        \/ Open(a)
        \/ Close(a)
        \/ Enter(a)
        \/ Exit(a)
        \/ RequestsTransport_send(a)
        \/ AsyncioRequestsTransport_send(a)
        \/ AsyncioRequestsTransport_send_resume(a)
        \/ TrioRequestsTransport_send(a)
        \/ TrioRequestsTransport_send_resume(a)

Spec == Init /\ [][Next]_vars

-----------------------------------------------------------------------------
(* The three adapters side by side, over one mocked HTTP layer *)

\* One transport of each class, constructed without arguments, all over an
\* HTTP layer fixed to one behaviour for one request and one set of options.
InitEquiv ==
    /\ sessions = <<>>
    /\ ctor = [x \in Adapters |-> [session |-> NoSession, session_owner |-> TRUE,
                                   use_env_settings |-> TRUE]]
    /\ tr = [x \in Adapters |-> RequestsTransport_init(NoSession, TRUE, TRUE)]
    /\ pending = [x \in Adapters |-> NoPending]
    /\ last = [x \in Adapters |-> NoLast]
    /\ \E request \in Requests, kwargs \in Kwargs, h \in HttpOutcomes :
         mock = [fixed |-> TRUE, request |-> request, kwargs |-> kwargs, http |-> h]
    /\ NoStream
    /\ threads = NoThreads

\* Each transport is only sent on.
NextEquiv ==
    \E a \in DOMAIN tr :
        \/ RequestsTransport_send(a)
        \/ AsyncioRequestsTransport_send(a)
        \/ AsyncioRequestsTransport_send_resume(a)
        \/ TrioRequestsTransport_send(a)
        \/ TrioRequestsTransport_send_resume(a)

SpecEquiv == InitEquiv /\ [][NextEquiv]_vars

-----------------------------------------------------------------------------
(* A stream download generator over one streamed response *)

\* One generator of any of the three classes, over a response with any body,
\* block size and Content-Length header, and no transport.
InitStream ==
    /\ sessions = <<>> /\ ctor = <<>> /\ tr = <<>> /\ pending = <<>> /\ last = <<>>
    /\ mock = LiveLayer
    /\ \E variant \in Variants, body \in Bodies, block_size \in BlockSizes,
          status \in RangeStatuses :
        \E headers \in HeadersOf(body) :
            /\ gen = StreamDownloadGenerator_init(variant, block_size, headers)
            /\ raw = [body |-> body, headers |-> headers, pos |-> 0,
                      iter |-> "live", closes |-> 0]
            /\ pipe = [status |-> status, runs |-> <<>>]
    /\ frame = NoFrame
    /\ pulls = NoPulls
    /\ threads = NoThreads

\* What the caller sees of a pass through the loop that ended the call: the
\* end of the loop without a return is the return of None.
Seen(res, o1, before) ==
    [kind |-> IF res.kind = "continue" THEN "return" ELSE res.kind,
     chunk |-> res.chunk, cls |-> res.cls, met |-> o1, pulls |-> res.pulls,
     steps |-> res.steps,
     runs |-> Len(res.pipe.runs) - Len(pipe.runs),
     closes |-> res.raw.closes - raw.closes,
     retry_total |-> res.locals.retry_total,
     downloaded |-> before]

\* The body of the loop of the variant's __next__ / __anext__.
loop_body(variant, g, r, p, f, o1, o2) ==
    CASE variant = "StreamDownloadGenerator" ->
            StreamDownloadGenerator_loop_body(g, r, p, f, o1, o2)
      [] variant = "AsyncioStreamDownloadGenerator" ->
            AsyncioStreamDownloadGenerator_loop_body(g, r, p, f, o1, o2)
      [] variant = "TrioStreamDownloadGenerator" ->
            TrioStreamDownloadGenerator_loop_body(g, r, p, f, o1, o2)

\* A call of __next__ / __anext__ of the variant, or its next pass through
\* the loop: the pull ends with o1, and a pull after a re-issue with o2.
Pull(variant) ==
    /\ gen.variant = variant
    /\ \E o1 \in IterOutcomes(raw, gen.block_size) :
       \E o2 \in IterOutcomes(Pulled(raw, o1), gen.block_size) :
        LET f == IF frame.active
                 THEN [retry_active |-> frame.retry_active,
                       retry_total |-> frame.retry_total]
                 ELSE NextLocals
            res == loop_body(variant, gen, raw, pipe, f, o1, o2)
            again == res.kind = "continue" /\ res.locals.retry_active
        IN  /\ res.raw.closes <= MaxCloses
            /\ gen' = res.gen
            /\ raw' = res.raw
            /\ pipe' = res.pipe
            /\ frame' = IF again
                        THEN [active |-> TRUE, retry_active |-> res.locals.retry_active,
                              retry_total |-> res.locals.retry_total]
                        ELSE NoFrame
            /\ pulls' =
                 [emitted |-> IF res.kind = "chunk" THEN Append(pulls.emitted, res.chunk)
                              ELSE pulls.emitted,
                  transients |-> IF o1.kind = "raise" /\ IsTransient(o1.cls)
                                 THEN pulls.transients + 1 ELSE pulls.transients,
                  disturbed |-> \/ pulls.disturbed
                                \/ o1 = PullChunk(<<>>)
                                \/ o1.kind = "raise" /\ ~IsTransient(o1.cls)
                                \/ res.pulls = 2 /\ o2 = PullChunk(<<>>),
                  last |-> IF again THEN pulls.last ELSE Seen(res, o1, gen.downloaded)]
    /\ UNCHANGED <<transport, threads>>

StreamDownloadGenerator___next__ ==
    Pull("StreamDownloadGenerator")

AsyncioStreamDownloadGenerator___anext__ ==
    Pull("AsyncioStreamDownloadGenerator")

TrioStreamDownloadGenerator___anext__ ==
    Pull("TrioStreamDownloadGenerator")

NextStream ==
    \/ StreamDownloadGenerator___next__
    \/ AsyncioStreamDownloadGenerator___anext__
    \/ TrioStreamDownloadGenerator___anext__

SpecStream == InitStream /\ [][NextStream]_vars

-----------------------------------------------------------------------------
(* A cooperative transport and its stream download generator on one loop *)

\* The adapters that run on an event loop, and the generator class of each.
Cooperative == {"asyncio", "trio"}

VariantOf(a) ==
    IF a = "asyncio" THEN "AsyncioStreamDownloadGenerator"
    ELSE IF a = "trio" THEN "TrioStreamDownloadGenerator"
    ELSE "StreamDownloadGenerator"

\* Two tasks of one event loop: one sends on an asyncio or trio transport
\* constructed without arguments, over an HTTP layer fixed to one behaviour,
\* the other iterates a generator of the same runtime over a body of 2 bytes.
InitLoop ==
    \E a \in Cooperative, h \in HttpOutcomes, status \in RangeStatuses :
        /\ sessions = <<>>
        /\ ctor = [x \in {a} |-> [session |-> NoSession, session_owner |-> TRUE,
                                  use_env_settings |-> TRUE]]
        /\ tr = [x \in {a} |-> RequestsTransport_init(NoSession, TRUE, TRUE)]
        /\ pending = [x \in {a} |-> NoPending]
        /\ last = [x \in {a} |-> NoLast]
        /\ mock = [fixed |-> TRUE, request |-> "GET /a", kwargs |-> NoKwargs, http |-> h]
        /\ gen = StreamDownloadGenerator_init(VariantOf(a), 1, NoHeaders)
        /\ raw = [body |-> <<1, 2>>, headers |-> NoHeaders, pos |-> 0,
                  iter |-> "live", closes |-> 0]
        /\ pipe = [status |-> status, runs |-> <<>>]
        /\ frame = NoFrame
        /\ pulls = NoPulls
        /\ threads = NoThreads

\* A step of the task that sends.
SendStep ==
    \E a \in DOMAIN tr :
        \/ AsyncioRequestsTransport_send(a)
        \/ AsyncioRequestsTransport_send_resume(a)
        \/ TrioRequestsTransport_send(a)
        \/ TrioRequestsTransport_send_resume(a)

\* A step of the task that iterates the generator.
AnextStep ==
    \/ AsyncioStreamDownloadGenerator___anext__
    \/ TrioStreamDownloadGenerator___anext__

NextLoop == SendStep \/ AnextStep

SpecLoop == InitLoop /\ [][NextLoop]_vars

-----------------------------------------------------------------------------
(* open() and close() called from several threads on one transport *)

Threads == 1..MaxThreads

\* The transport the threads share.
Shared == "basic"

\* One RequestsTransport that owns its session, constructed without a session
\* or on a session of the caller, and threads that are not inside a call.
InitThreads ==
    \E supplied \in {"none"} \cup SuppliedRetries, env \in BOOLEAN :
        LET sid == IF supplied = "none" THEN NoSession ELSE 1
        IN  /\ sessions = IF supplied = "none" THEN <<>> ELSE <<requests_Session(supplied)>>
            /\ ctor = [x \in {Shared} |-> [session |-> sid, session_owner |-> TRUE,
                                           use_env_settings |-> env]]
            /\ tr = [x \in {Shared} |-> RequestsTransport_init(sid, TRUE, env)]
            /\ pending = [x \in {Shared} |-> NoPending]
            /\ last = [x \in {Shared} |-> NoLast]
            /\ mock = LiveLayer
            /\ NoStream
            /\ threads = [of |-> [th \in Threads |-> Idle], overlapped |-> FALSE]

\* Thread th moves to pc; a call that ends records what it was and what it
\* raised, and a call that starts while another thread is inside a call
\* overlaps it.
Moved(th, pc, done, raised) ==
    [of |-> [threads.of EXCEPT ![th] =
                [pc |-> pc,
                 done |-> IF pc = "idle" THEN done ELSE @.done,
                 raised |-> IF pc = "idle" THEN raised ELSE @.raised]],
     overlapped |-> \/ threads.overlapped
                    \/ /\ threads.of[th].pc = "idle"
                       /\ \E other \in Threads \ {th} : threads.of[other].pc # "idle"]

\* if not self.session and self._session_owner
open_test_owner_only(t) == t._session_owner

open_test(t) == t.session = NoSession /\ t._session_owner

\* open(), the test: thread th enters open() and evaluates the condition.
ThreadOpen_test(th) ==
    /\ threads.of[th].pc = "idle"
    /\ Len(sessions) + Cardinality({o \in Threads : threads.of[o].pc = "open_create"})
         < MaxSessions
    /\ threads' = IF open_test(tr[Shared]) THEN Moved(th, "open_create", "open", "none")
                  ELSE Moved(th, "idle", "open", "none")
    /\ UNCHANGED <<transport, stream>>

\* open(): self.session = requests.Session()
ThreadOpen_create(th) ==
    /\ threads.of[th].pc = "open_create"
    /\ sessions' = Append(sessions, requests_Session("Retry(0)"))
    /\ tr' = [tr EXCEPT ![Shared].session = Len(sessions) + 1]
    /\ threads' = Moved(th, "open_init", "open", "none")
    /\ UNCHANGED <<ctor, pending, last, mock, stream>>

\* open(): self._init_session(self.session), on the session held by now.
ThreadOpen_init(th) ==
    /\ threads.of[th].pc = "open_init"
    /\ IF tr[Shared].session = NoSession
       THEN /\ threads' = Moved(th, "idle", "open", "AttributeError")
            /\ UNCHANGED sessions
       ELSE /\ sessions' = [sessions EXCEPT ![tr[Shared].session] =
                               _init_session(tr[Shared], @)]
            /\ threads' = Moved(th, "idle", "open", "none")
    /\ UNCHANGED <<ctor, tr, pending, last, mock, stream>>

\* close(), the test: if self._session_owner
ThreadClose_test(th) ==
    /\ threads.of[th].pc = "idle"
    /\ threads' = IF tr[Shared]._session_owner
                  THEN Moved(th, "close_session", "close", "none")
                  ELSE Moved(th, "idle", "close", "none")
    /\ UNCHANGED <<transport, stream>>

\* close(): self.session.close()
ThreadClose_session(th) ==
    /\ threads.of[th].pc = "close_session"
    /\ IF tr[Shared].session = NoSession
       THEN /\ threads' = Moved(th, "idle", "close", "AttributeError")
            /\ UNCHANGED sessions
       ELSE /\ sessions' = [sessions EXCEPT ![tr[Shared].session].closes = @ + 1]
            /\ threads' = Moved(th, "close_owner", "close", "none")
    /\ UNCHANGED <<ctor, tr, pending, last, mock, stream>>

\* close(): self._session_owner = False
ThreadClose_owner(th) ==
    /\ threads.of[th].pc = "close_owner"
    /\ tr' = [tr EXCEPT ![Shared]._session_owner = FALSE]
    /\ threads' = Moved(th, "close_null", "close", "none")
    /\ UNCHANGED <<ctor, sessions, pending, last, mock, stream>>

\* close(): self.session = None
ThreadClose_null(th) ==
    /\ threads.of[th].pc = "close_null"
    /\ tr' = [tr EXCEPT ![Shared].session = NoSession]
    /\ threads' = Moved(th, "idle", "close", "none")
    /\ UNCHANGED <<ctor, sessions, pending, last, mock, stream>>

NextThreads ==
    \E th \in Threads :
        \/ ThreadOpen_test(th)
        \/ ThreadOpen_create(th)
        \/ ThreadOpen_init(th)
        \/ ThreadClose_test(th)
        \/ ThreadClose_session(th)
        \/ ThreadClose_owner(th)
        \/ ThreadClose_null(th)

SpecThreads == InitThreads /\ [][NextThreads]_vars

-----------------------------------------------------------------------------
(* send called from several tasks of one event loop on one transport *)

Tasks == 1..MaxTasks

\* A task that is not inside send.
NoTask == [pc |-> "idle", done |-> "none", raised |-> "none", call |-> NoCall]

\* One asyncio or trio transport that owns its session and was constructed
\* without one, over an HTTP layer fixed to one behaviour for one set of
\* options, and tasks of one loop that are not inside send.
InitTasks ==
    \E a \in Cooperative, env \in BOOLEAN, kwargs \in Kwargs, h \in HttpOutcomes :
        /\ sessions = <<>>
        /\ ctor = [x \in {a} |-> [session |-> NoSession, session_owner |-> TRUE,
                                  use_env_settings |-> env]]
        /\ tr = [x \in {a} |-> RequestsTransport_init(NoSession, TRUE, env)]
        /\ pending = [x \in {a} |-> NoPending]
        /\ last = [x \in {a} |-> NoLast]
        /\ mock = [fixed |-> TRUE, request |-> "GET /a", kwargs |-> kwargs, http |-> h]
        /\ NoStream
        /\ threads = [of |-> [k \in Tasks |-> NoTask], overlapped |-> FALSE]

\* The arguments of the partial the adapter's send builds.
send_call(a, t, request, kwargs) ==
    IF a = "asyncio" THEN AsyncioRequestsTransport_send_call(t, request, kwargs)
    ELSE TrioRequestsTransport_send_call(t, request, kwargs)

\* The except clauses of the adapter's send.
send_except(a, err) ==
    IF a = "asyncio" THEN AsyncioRequestsTransport_send_except(err)
    ELSE TrioRequestsTransport_send_except(err)

\* send of task k up to its first await: self.open(), kwargs.get and the
\* building of the partial run on the loop thread without a suspension point
\* between them, so no other task of the loop runs in between; the task is
\* then suspended while a worker thread runs session.request.  A send that
\* starts while another task is suspended inside send overlaps it.
TaskSend(k) ==
    \E a \in DOMAIN tr :
        /\ threads.of[k].pc = "idle"
        /\ Room(tr[a])
        /\ LET o == open(tr[a], sessions)
               over == \/ threads.overlapped
                       \/ \E other \in Tasks \ {k} : threads.of[other].pc = "awaiting"
           IN  /\ tr' = [tr EXCEPT ![a] = o.t]
               /\ sessions' = o.sessions
               /\ \E request \in SendRequests, kwargs \in SendKwargs :
                    threads' =
                      [of |-> [threads.of EXCEPT ![k] =
                                 IF CallSiteError(o.t, kwargs) # "none"
                                 THEN [pc |-> "idle", done |-> "send",
                                       raised |-> CallSiteError(o.t, kwargs), call |-> NoCall]
                                 ELSE [pc |-> "awaiting", done |-> @.done, raised |-> @.raised,
                                       call |-> send_call(a, o.t, request, kwargs)]],
                       overlapped |-> over]
        /\ UNCHANGED <<ctor, pending, last, mock, stream>>

\* send of task k from its await on: the worker thread has run
\* session.request on the session the partial was built with; the except
\* clauses, then raise or return.
TaskResume(k) ==
    \E a \in DOMAIN tr :
        /\ threads.of[k].pc = "awaiting"
        /\ LET call == threads.of[k].call
           IN  \E h \in SendOutcomes :
                 LET kind == IF BindingError(call) # "none" THEN BindingError(call)
                             ELSE SendCompleted(tr[a], send_except(a, HttpResult(call, h)),
                                                call.request, call.kwargs, call, h).kind
                 IN  threads' = [threads EXCEPT !.of[k] =
                                    [pc |-> "idle", done |-> "send", raised |-> kind,
                                     call |-> call]]
        /\ UNCHANGED <<transport, stream>>

NextTasks == \E k \in Tasks : TaskSend(k) \/ TaskResume(k)

SpecTasks == InitTasks /\ [][NextTasks]_vars

-----------------------------------------------------------------------------
(* Properties of send *)

\* The last operation on transport a was a send whose HTTP call was made
\* and has ended.
Sent(a) == last[a].op = "send" /\ last[a].exchanges # <<>>

\* err.args[0] exists and is a urllib3 ProtocolError.
CarriesProtocolError(err) == Len(err.args) > 0 /\ err.args[1] = "ProtocolError"

\* C1: when the HTTP call of a send fails to establish a connection (a
\* urllib3 NewConnectionError, or a requests ConnectionError whose first
\* argument is not a protocol error), send fails with ServiceRequestError
\* carrying that error, in each of the three adapters.
C1_ConnectFailureIsRequestError ==
    \A a \in DOMAIN last :
        (/\ Sent(a)
         /\ last[a].http.type = "exception"
         /\ \/ isinstance(last[a].http.cls, "NewConnectionError")
            \/ /\ isinstance(last[a].http.cls, "ConnectionError")
               /\ ~CarriesProtocolError(last[a].http))
        => /\ last[a].kind = "ServiceRequestError"
           /\ last[a].error = last[a].http

\* All three adapters have failed with ServiceRequestError on a connection
\* error that wraps a urllib3 MaxRetryError.
C1_Witness ==
    \A a \in Adapters :
        /\ a \in DOMAIN last
        /\ Sent(a)
        /\ last[a].http = Raise("ConnectionError", <<"MaxRetryError">>)
        /\ last[a].kind = "ServiceRequestError"

\* C2: when the HTTP call of a send fails with a read timeout, send fails
\* with ServiceResponseError, never ServiceRequestError, in each of the
\* three adapters.
C2_ReadTimeoutIsResponseError ==
    \A a \in DOMAIN last :
        (/\ Sent(a)
         /\ last[a].http.type = "exception"
         /\ isinstance(last[a].http.cls, "ReadTimeout"))
        => /\ last[a].kind = "ServiceResponseError"
           /\ last[a].error = last[a].http

\* All three adapters have failed with ServiceResponseError on a read timeout.
C2_Witness ==
    \A a \in Adapters :
        /\ a \in DOMAIN last
        /\ Sent(a)
        /\ last[a].http.cls = "ReadTimeout"
        /\ last[a].kind = "ServiceResponseError"

\* C3: a connection-level error of the HTTP call is classified by its first
\* argument: ServiceResponseError if that is a urllib3 ProtocolError,
\* ServiceRequestError otherwise, also when the error has no arguments.
C3_ConnectionErrorByRootCause ==
    \A a \in DOMAIN last :
        (/\ Sent(a)
         /\ last[a].http.type = "exception"
         /\ isinstance(last[a].http.cls, "ConnectionError"))
        => last[a].kind = IF CarriesProtocolError(last[a].http)
                          THEN "ServiceResponseError"
                          ELSE "ServiceRequestError"

\* A send has failed with ServiceResponseError on a connection error whose
\* first argument is a ProtocolError.
C3_Witness ==
    \E a \in DOMAIN last :
        /\ Sent(a)
        /\ last[a].http = Raise("ConnectionError", <<"ProtocolError">>)
        /\ last[a].kind = "ServiceResponseError"

\* C4: a send whose HTTP call returns or fails with an exception of the
\* requests library ends in one of three ways: a Response, a
\* ServiceRequestError or a ServiceResponseError; and a request exception
\* that is no connect failure, read timeout or connection error gives
\* ServiceRequestError.
C4_ThreeOutcomes ==
    \A a \in DOMAIN last :
        Sent(a) =>
            /\ last[a].http.type = "response" => last[a].kind = "Response"
            /\ (last[a].http.type = "exception" /\ isinstance(last[a].http.cls, "RequestException"))
               => last[a].kind \in {"ServiceRequestError", "ServiceResponseError"}
            /\ (/\ last[a].http.type = "exception"
                /\ isinstance(last[a].http.cls, "RequestException")
                /\ ~isinstance(last[a].http.cls, "NewConnectionError")
                /\ ~isinstance(last[a].http.cls, "ReadTimeout")
                /\ ~isinstance(last[a].http.cls, "ConnectionError"))
               => last[a].kind = "ServiceRequestError"

\* The direct transport has failed with ServiceRequestError on a general
\* timeout of the requests library.
C4_Witness ==
    \E a \in DOMAIN last :
        /\ a = "basic"
        /\ Sent(a)
        /\ last[a].http.cls = "Timeout"
        /\ last[a].kind = "ServiceRequestError"

\* C5: over the same mocked HTTP layer and for the same request, any two
\* adapters whose send has ended ended it the same way: the same error
\* kind carrying the same error, or a Response of the same status when the
\* HTTP call succeeded.
C5_AdaptersAgree ==
    \A a, b \in DOMAIN last :
        (/\ last[a].op = "send" /\ last[a].kind # "awaiting"
         /\ last[b].op = "send" /\ last[b].kind # "awaiting")
        => /\ last[a].kind = last[b].kind
           /\ last[a].error = last[b].error
           /\ last[a].status = last[b].status
           /\ last[a].exchanges = <<>> <=> last[b].exchanges = <<>>
           /\ (Sent(a) /\ last[a].http.type = "response") => last[b].kind = "Response"

\* All three adapters have ended a send with ServiceResponseError on the
\* same protocol-level connection error.
C5_Witness ==
    /\ DOMAIN last = Adapters
    /\ \A a \in Adapters :
        /\ Sent(a)
        /\ last[a].http = Raise("ConnectTimeout", <<"ProtocolError">>)
        /\ last[a].kind = "ServiceResponseError"

\* C6: every HTTP exchange a send makes, and every call handed to a worker,
\* carries allow_redirects=False; a send whose HTTP call is answered with a
\* redirect status returns that response and has made one exchange only.
C6_NeverFollowsRedirect ==
    \A a \in DOMAIN last :
        /\ \A i \in 1..Len(last[a].exchanges) : last[a].exchanges[i].allow_redirects = FALSE
        /\ pending[a].active => pending[a].call.allow_redirects = FALSE
        /\ (Sent(a) /\ last[a].http.type = "response" /\ IsRedirect(last[a].http.status))
           => /\ last[a].kind = "Response"
              /\ last[a].status = last[a].http.status
              /\ Len(last[a].exchanges) = 1

\* The trio transport has returned a 302 response.
C6_Witness ==
    \E a \in DOMAIN last :
        /\ a = "trio"
        /\ Sent(a)
        /\ last[a].http = ResponseOf(302)
        /\ last[a].kind = "Response"
        /\ last[a].status = 302

-----------------------------------------------------------------------------
(* Properties of the session lifecycle *)

\* The last operation on transport a was a send that has ended.
SendEnded(a) == last[a].op = "send" /\ last[a].kind # "awaiting"

\* An adapter mounted with this max_retries never retries.
NoRetry(retries) == retries \in {disable_retries, "Retry(0)"}

\* C7 as stated: every send that has ended made exactly one HTTP exchange,
\* on a session whose adapters do not retry.
C7_ExactlyOneCall ==
    \A a \in DOMAIN last :
        SendEnded(a) =>
            /\ Len(last[a].exchanges) = 1
            /\ \A p \in _protocols :
                 NoRetry(sessions[last[a].exchanges[1].session].mounts[p])

\* C7, amended: a send never makes a second HTTP exchange: it makes exactly
\* one, whether that one succeeds or fails, unless it fails before the call
\* with an AttributeError (no session held after open()) or a TypeError (an
\* option the HTTP call rejects), when it makes none; and every session the
\* transport created has built-in retry disabled on http:// and https://.
C7_AtMostOneCall ==
    \A a \in DOMAIN last :
        /\ SendEnded(a) =>
            /\ Len(last[a].exchanges) <= 1
            /\ last[a].exchanges = <<>> <=> last[a].kind \in {"AttributeError", "TypeError"}
            /\ last[a].kind = "AttributeError"
               => (last[a].before.session = NoSession /\ ~last[a].before._session_owner)
            /\ last[a].kind = "TypeError"
               => ~(DOMAIN PassedThrough(last[a].kwargs) \subseteq SessionRequestKeywords)
        /\ \A i \in 1..Len(sessions) :
             i # ctor[a].session => \A p \in _protocols : sessions[i].mounts[p] = disable_retries

\* A send has made its one HTTP exchange on a session the transport created,
\* and the exchange failed.
C7_Witness ==
    \E a \in DOMAIN last :
        /\ Sent(a)
        /\ Len(last[a].exchanges) = 1
        /\ last[a].http.type = "exception"
        /\ last[a].exchanges[1].session # ctor[a].session
        /\ sessions[last[a].exchanges[1].session].mounts["https://"] = disable_retries

\* C8: an operation that runs open() (open itself, send, context-manager
\* entry) on a transport that holds a session leaves that session in place
\* and creates nothing; a session is created only by such an operation on an
\* owning transport that holds none, and then exactly one, which the
\* transport then holds.
C8_OpenIdempotent ==
    [][\A a \in DOMAIN tr :
          last'[a].op \in {"open", "enter", "send"} =>
              /\ tr[a].session # NoSession
                 => (tr'[a].session = tr[a].session /\ sessions' = sessions)
              /\ Len(sessions') # Len(sessions)
                 => /\ tr[a].session = NoSession
                    /\ tr[a]._session_owner
                    /\ Len(sessions') = Len(sessions) + 1
                    /\ tr'[a].session = Len(sessions')
              /\ (tr[a].session = NoSession /\ tr[a]._session_owner)
                 => Len(sessions') = Len(sessions) + 1]_vars

\* open() has been called on a transport that already held the session it
\* had created, and the session is still the one held.
C8_Witness ==
    \E a \in DOMAIN last :
        /\ last[a].op = "open"
        /\ ctor[a].session = NoSession
        /\ last[a].before.session # NoSession
        /\ tr[a].session = last[a].before.session
        /\ Len(sessions) = 1

\* C9: close() on a transport that owns and holds a session closes that
\* session once, clears the reference and the ownership flag, and returns;
\* close() on a transport whose ownership flag is clear changes nothing and
\* returns; no session is ever closed twice.
C9_CloseIdempotent ==
    /\ [](\A i \in 1..Len(sessions) : sessions[i].closes <= 1)
    /\ [][\A a \in DOMAIN tr :
            last'[a].op \in {"close", "exit"} =>
                /\ (tr[a]._session_owner /\ tr[a].session # NoSession)
                   => /\ tr'[a].session = NoSession
                      /\ ~tr'[a]._session_owner
                      /\ sessions'[tr[a].session].closes = sessions[tr[a].session].closes + 1
                      /\ last'[a].kind = "None"
                /\ ~tr[a]._session_owner
                   => /\ tr'[a] = tr[a]
                      /\ sessions' = sessions
                      /\ last'[a].kind = "None"]_vars

\* close() has returned on a transport that an earlier close() had made
\* release the session it owned.
C9_Witness ==
    \E a \in DOMAIN last :
        /\ last[a].op = "close"
        /\ ctor[a].session_owner
        /\ ~last[a].before._session_owner
        /\ last[a].kind = "None"
        /\ \E i \in 1..Len(sessions) : sessions[i].closes = 1

\* C10: a transport constructed with a caller's session and
\* session_owner=False always holds that session, and the session is never
\* closed.
C10_ForeignSessionUntouched ==
    \A a \in DOMAIN tr :
        (ctor[a].session # NoSession /\ ~ctor[a].session_owner)
        => /\ tr[a].session = ctor[a].session
           /\ ~tr[a]._session_owner
           /\ sessions[ctor[a].session].closes = 0
           /\ Len(sessions) = 1

\* close() has been called after a send on a transport constructed with a
\* caller's session and session_owner=False.
C10_Witness ==
    \E a \in DOMAIN last :
        /\ ctor[a].session # NoSession
        /\ ~ctor[a].session_owner
        /\ last[a].op = "close"
        /\ last[a].before.session = ctor[a].session
        /\ tr[a].session = ctor[a].session

-----------------------------------------------------------------------------
(* Properties of send: the session and the options *)

RejectedByTransport(a) ==
    /\ SendEnded(a)
    /\ last[a].kind = "TypeError"
    /\ DOMAIN PassedThrough(last[a].kwargs) \subseteq SessionRequestKeywords \cup ExplicitKeywords

\* The call of a send follows the options: the three connection_ options
\* replace the configured values, the defaults apply when they are absent,
\* the other options are handed on as they are, and the configuration of
\* the transport is as constructed.
OptionsApplied(a, kwargs, call) ==
    /\ call.verify = IF "connection_verify" \in DOMAIN kwargs
                     THEN kwargs["connection_verify"] ELSE connection_config.verify
    /\ call.timeout = IF "connection_timeout" \in DOMAIN kwargs
                      THEN kwargs["connection_timeout"] ELSE connection_config.timeout
    /\ call.cert = IF "connection_cert" \in DOMAIN kwargs
                   THEN kwargs["connection_cert"] ELSE connection_config.cert
    /\ DOMAIN call.kwargs =
         DOMAIN kwargs \ {"connection_verify", "connection_timeout", "connection_cert"}
    /\ \A n \in DOMAIN call.kwargs : call.kwargs[n] = kwargs[n]
    /\ tr[a].connection_config = connection_config

-----------------------------------------------------------------------------
(* Properties of the stream download generators *)

\* The chunks of a sequence of chunks, one after the other.
RECURSIVE Concat(_)
Concat(chunks) == IF chunks = <<>> THEN <<>> ELSE Head(chunks) \o Concat(Tail(chunks))

\* The least k with k * b >= n.
Ceil(n, b) == CHOOSE k \in 0..n : k * b >= n /\ (k = 0 \/ (k - 1) * b < n)

\* The signal with which the variant ends an iteration.
CompletionSignal ==
    IF gen.variant = "StreamDownloadGenerator" THEN "StopIteration" ELSE "StopAsyncIteration"

Completed == pulls.last.kind = "complete" /\ pulls.last.cls = CompletionSignal

\* The content iterator has so far delivered the body in chunks of the block
\* size, without an error and without an empty chunk.
CleanDelivery == gen.variant \in Variants /\ pulls.transients = 0 /\ ~pulls.disturbed

\* C13: when the content iterator delivers a body of N bytes in chunks of block
\* size B without errors, the generator emits the chunks in the iterator's
\* order, signals completion once the iterator has ended and not before, and
\* has then emitted exactly ceil(N/B) chunks whose concatenation is the body.
C13_CleanIterationYieldsBody ==
    CleanDelivery =>
        /\ pulls.last.kind \in {"none", "chunk", "complete"}
        /\ pulls.emitted = [i \in 1..Len(pulls.emitted) |-> Chunk(raw.body, gen.block_size, i)]
        /\ pulls.last.kind = "chunk" => pulls.last.chunk = pulls.emitted[Len(pulls.emitted)]
        /\ raw.iter = "finished" <=> Completed
        /\ Completed =>
            /\ Len(pulls.emitted) = Ceil(Len(raw.body), gen.block_size)
            /\ Concat(pulls.emitted) = raw.body

\* A body of 5 bytes in blocks of 2 was iterated to completion: two full
\* chunks and a final short one.
C13_Witness ==
    /\ CleanDelivery /\ Completed
    /\ Len(raw.body) = 5 /\ gen.block_size = 2
    /\ Len(pulls.emitted) = 3 /\ Len(pulls.emitted[3]) = 1

\* The transient network errors of a pull: chunked-encoding and connection-level.
TransientNetworkErrors == {"ChunkedEncodingError", "ConnectionError", "ConnectTimeout"}

\* The last call met a transient network error on its pull.
MetTransient ==
    /\ gen.variant \in Variants
    /\ pulls.last.met.kind = "raise"
    /\ pulls.last.met.cls \in TransientNetworkErrors

\* C14: the downloaded-byte counter is the number of bytes returned to the
\* caller so far, the sum of the lengths of the emitted chunks.
C14_DownloadedCountsEmittedBytes ==
    gen.variant \in Variants =>
        /\ gen.downloaded.t = "int"
        /\ gen.downloaded.v = Len(Concat(pulls.emitted))

\* C15: a call whose pull fails with a transient network error while retry
\* budget remains re-issues the request through pipeline.run with the header
\* range: bytes=<N>-, N being the downloaded count at that moment, and emits
\* no chunk before it has done so.
C15_TransientFailureReissuesWithRange ==
    MetTransient =>
        /\ pulls.last.runs >= 1
        /\ Len(pipe.runs) >= 1
        /\ pipe.runs[Len(pipe.runs)].t = "str"
        /\ pulls.last.downloaded.t = "int"
        /\ pipe.runs[Len(pipe.runs)].v = "bytes=" \o ToString(pulls.last.downloaded.v) \o "-"

\* C16: with a body of 5 chunks and a single transient connection error on the
\* pull of one of them, the call that met the error resumes and emits a chunk,
\* the emitted chunks stay the chunks of the body in order, and the iteration
\* completes only with the whole body emitted.
C16_ResumeAfterSingleTransientError ==
    (/\ gen.variant \in Variants
     /\ NChunks(raw.body, gen.block_size) = 5
     /\ pulls.transients = 1 /\ ~pulls.disturbed
     /\ pipe.status # 416)
    =>  /\ pulls.last.kind \in {"chunk", "complete"}
        /\ pulls.emitted = [i \in 1..Len(pulls.emitted) |-> Chunk(raw.body, gen.block_size, i)]
        /\ pulls.last.kind = "complete"
           => /\ pulls.last.cls = CompletionSignal
              /\ Concat(pulls.emitted) = raw.body

\* C17: a call that met a transient failure and does not resume gives up only
\* with its retry budget exhausted; it then raises the transient error (it
\* neither returns nor signals completion) and the raw response has been
\* closed exactly once.
C17_ExhaustedBudgetSurfacesError ==
    (MetTransient /\ pipe.status # 416 /\ pulls.last.kind \notin {"chunk", "complete"})
    =>  /\ pulls.last.kind = "raise"
        /\ pulls.last.cls \in TransientNetworkErrors
        /\ pulls.last.retry_total <= 0
        /\ raw.closes = 1

C19_StreamConsumedIsFatal ==
    (/\ gen.variant \in Variants
     /\ pulls.last.met.kind = "raise"
     /\ pulls.last.met.cls = "StreamConsumedError")
    =>  /\ pulls.last.kind = "raise"
        /\ pulls.last.cls = "StreamConsumedError"
        /\ pulls.last.pulls = 1
        /\ pulls.last.retry_total = retry_total
        /\ pulls.last.runs = 0
        /\ pipe.runs = <<>>

\* An asyncio generator that had emitted a chunk met StreamConsumedError.
C19_Witness ==
    /\ gen.variant = "AsyncioStreamDownloadGenerator"
    /\ pulls.last.met = PullRaise("StreamConsumedError")
    /\ pulls.last.kind = "raise"
    /\ Len(pulls.emitted) = 1

\* C20: a call whose pull raises an error that is neither the end of the
\* stream, nor a transient network error, nor StreamConsumedError closes the
\* raw response and raises the same error, without a second pull, a use of
\* the retry budget or a re-issue.
C20_UnexpectedErrorClosesAndPropagates ==
    (/\ gen.variant \in Variants
     /\ pulls.last.met.kind = "raise"
     /\ pulls.last.met.cls \notin TransientNetworkErrors \cup {"StreamConsumedError"})
    =>  /\ pulls.last.kind = "raise"
        /\ pulls.last.cls = pulls.last.met.cls
        /\ pulls.last.closes = 1
        /\ pulls.last.pulls = 1
        /\ pulls.last.retry_total = retry_total
        /\ pulls.last.runs = 0
        /\ pipe.runs = <<>>

\* A blocking generator that had emitted two chunks met an OSError: the raw
\* response is closed once and the error raised.
C20_Witness ==
    /\ gen.variant = "StreamDownloadGenerator"
    /\ pulls.last.met = PullRaise("OSError")
    /\ pulls.last.kind = "raise" /\ pulls.last.cls = "OSError"
    /\ Len(pulls.emitted) = 2
    /\ raw.closes = 1

-----------------------------------------------------------------------------
(* Properties of the stream download generators: completion and length *)

\* C21: a call whose pull meets the end of the content iterator closes the
\* raw response and raises the completion signal of its variant (StopIteration
\* in the blocking variant, StopAsyncIteration in the asyncio and trio ones);
\* the raw response is closed when the signal reaches the caller.
C21_EndOfStreamClosesAndCompletes ==
    (gen.variant \in Variants /\ pulls.last.met.kind = "end")
    =>  /\ pulls.last.kind = "complete"
        /\ pulls.last.cls = (IF gen.variant = "StreamDownloadGenerator"
                             THEN "StopIteration" ELSE "StopAsyncIteration")
        /\ pulls.last.closes = 1
        /\ raw.closes >= 1

\* A blocking generator over a body of 3 bytes emitted its two chunks and met
\* the end of the iterator.
C21_Witness ==
    /\ gen.variant = "StreamDownloadGenerator"
    /\ pulls.last.met = PullEnd
    /\ pulls.last.kind = "complete"
    /\ Len(raw.body) = 3 /\ Len(pulls.emitted) = 2
    /\ raw.closes = 1

\* The generator has signalled completion because its content iterator ended.
Drained ==
    /\ gen.variant \in Variants
    /\ pulls.last.kind = "complete"
    /\ pulls.last.met.kind = "end"

\* C22: once the generator has signalled completion because the content
\* iterator was drained, every later call signals completion again: it emits
\* no chunk, makes no re-issue and leaves the generator, with its downloaded
\* counter, as it was.
C22_NoRestartAfterCompletion ==
    [][Drained =>
        /\ pulls'.last.kind = "complete"
        /\ pulls'.last.cls = pulls.last.cls
        /\ pulls'.emitted = pulls.emitted
        /\ pipe' = pipe
        /\ gen' = gen]_vars

\* A generator that delivered a whole body of 2 bytes without an error has
\* been pulled again after its completion, and completed again.
C22_Witness ==
    /\ Drained /\ CleanDelivery
    /\ Len(raw.body) = 2 /\ Concat(pulls.emitted) = raw.body
    /\ raw.closes = 2

\* The number a Content-Length header of decimal digits stands for.
HeaderLength(headers) ==
    CHOOSE n \in 0..(MaxBody + 10) : Digits(n) = headers.content_length

\* C23: the length the generator reports is the Content-Length header of the
\* response it was constructed on, 0 when the response has none, whatever the
\* calls made since, their errors, and the number of bytes delivered.
C23_LengthIsContentLength ==
    gen.variant \in Variants =>
        __len__(gen) = IF raw.headers.has_content_length
                       THEN HeaderLength(raw.headers) ELSE 0

\* A generator over a body of 3 bytes announced as 13 has emitted one chunk of
\* 2 bytes and then raised an error: it still reports 13.
C23_Witness ==
    /\ gen.variant \in Variants
    /\ Len(raw.body) = 3 /\ raw.headers.has_content_length
    /\ raw.headers.content_length = <<1, 3>>
    /\ pulls.emitted = << <<1, 2>> >>
    /\ pulls.last.kind = "raise"
    /\ __len__(gen) = 13

-----------------------------------------------------------------------------
(* Properties of the stream download generators: the retry loop *)

\* C24: the local retry of a call is bounded: whatever the content iterator
\* does, a call makes at most 3 pulls on the body, sleeps the one fixed
\* interval before each re-issue, and ends in the pass through the loop it
\* started, with a chunk, the completion signal or a raised error.
C24_PullBoundedAndTerminates ==
    gen.variant \in Variants =>
        /\ ~frame.active
        /\ pulls.last.pulls <= 3
        /\ pulls.last.kind \in {"none", "chunk", "complete", "raise"}
        /\ \A i \in DOMAIN pulls.last.steps :
             pulls.last.steps[i].op = "sleep" => pulls.last.steps[i].duration = 1000

\* A call met a transient failure, slept and ended by raising.
C24_Witness ==
    /\ MetTransient
    /\ pulls.last.kind = "raise"
    /\ pulls.last.pulls = 1
    /\ \E i \in DOMAIN pulls.last.steps : pulls.last.steps[i].op = "sleep"
    /\ ~frame.active

\* What a pass through the loop shows to the caller and leaves behind: the
\* chunk, the completion signal or the class of the error, the raw response
\* with the number of times it was closed, the counter and the re-issues.
Visible(res) ==
    [kind |-> res.kind,
     chunk |-> res.chunk,
     error |-> IF res.kind = "complete"
               THEN (IF res.cls \in {"StopIteration", "StopAsyncIteration"}
                     THEN "completion" ELSE res.cls)
               ELSE res.cls,
     raw |-> res.raw,
     downloaded |-> res.gen.downloaded,
     content_length |-> res.gen.content_length,
     runs |-> res.pipe.runs,
     locals |-> res.locals]

C26_ResumePullsOnceMore ==
    (MetTransient /\ pipe.status # 416)
    =>  /\ pulls.last.runs = 1
        /\ pulls.last.pulls = 2
        /\ \/ /\ pulls.last.kind = "chunk"
              /\ pulls.last.chunk # <<>>
              /\ gen.downloaded.t = "int"
              /\ gen.downloaded.v > pulls.last.downloaded.v
           \/ /\ pulls.last.kind = "complete"
              /\ pulls.last.cls = CompletionSignal
              /\ pulls.last.closes = 1

-----------------------------------------------------------------------------
(* Properties of the sessions requests are issued on *)

\* The session has the adapters of _init_session of transport a: built-in
\* retry disabled on http:// and https://, and trust_env as use_env_settings.
Configured(a, s) ==
    /\ \A p \in _protocols : sessions[s].mounts[p] = disable_retries
    /\ sessions[s].trust_env = tr[a]._use_env_settings

\* The session is as the caller built it.
AsSupplied(s) ==
    /\ sessions[s].trust_env = TRUE
    /\ \E r \in SuppliedRetries : \A p \in _protocols : sessions[s].mounts[p] = r

\* The sessions transport a has issued a request on in its last send, or
\* has handed a request for to a worker.
IssuedOn(a) ==
    {last[a].exchanges[i].session : i \in 1..Len(last[a].exchanges)}
    \cup (IF pending[a].active THEN {pending[a].call.session} ELSE {})

\* C28 as stated: every session a transport issues a request on, created by
\* open() or supplied by the caller, has retry disabled on both protocols and
\* trust_env set from use_env_settings.
C28_EverySessionConfigured ==
    \A a \in DOMAIN tr : \A s \in IssuedOn(a) : Configured(a, s)

\* C28, amended: a session a transport issues a request on is configured by
\* _init_session if open() created it, and is as the caller built it, with
\* its own adapters and trust_env, if the caller supplied it.
C28_CreatedSessionsConfigured ==
    \A a \in DOMAIN tr : \A s \in IssuedOn(a) :
        /\ s # NoSession
        /\ s # ctor[a].session => Configured(a, s)
        /\ s = ctor[a].session => AsSupplied(s)

\* A transport constructed with use_env_settings=False on a caller's session
\* with retrying adapters has made an HTTP exchange on it.
C28_Witness ==
    \E a \in DOMAIN last :
        /\ Sent(a)
        /\ last[a].exchanges[1].session = ctor[a].session
        /\ ~tr[a]._use_env_settings
        /\ sessions[ctor[a].session].mounts["https://"] = "Retry(3)"
        /\ sessions[ctor[a].session].trust_env

-----------------------------------------------------------------------------
(* Properties of the cooperative adapters *)

\* Every pull and every run of the pipeline of the last call was handed to a
\* worker, and every sleep suspended the call.
OffTheLoop(steps) ==
    \A i \in DOMAIN steps :
        /\ steps[i].op \in {"pull", "run"} => steps[i].how = "worker"
        /\ steps[i].op = "sleep" => steps[i].how = "suspend"

\* The HTTP exchange of a send appears only in a step that ends a call
\* handed to a worker, and is the exchange of that call.
ExchangeByWorker(a) ==
    (last'[a] # last[a] /\ last'[a].exchanges # <<>>)
    => /\ pending[a].active
       /\ ~pending'[a].active
       /\ last'[a].exchanges[1] = pending[a].call

-----------------------------------------------------------------------------
(* C30: open() and close() under concurrent invocation *)

\* Session i was created and is no longer held by the transport, and nobody
\* closed it: close() only reaches the session the transport holds.
Leaked(i) == tr[Shared].session # i /\ sessions[i].closes = 0

\* The transport holds a session that has been closed.
HeldClosed ==
    /\ tr[Shared].session # NoSession
    /\ sessions[tr[Shared].session].closes > 0

AllIdle == \A th \in Threads : threads.of[th].pc = "idle"

\* C30: the lifecycle is safe as long as no call to open() or close() starts
\* while another thread is inside one, and only then: without an overlap no
\* session is lost unclosed, no open() fails on a missing session, and between
\* calls the transport never holds a closed session. What the claim describes
\* (two sessions created by two open() calls, one overwritten and never
\* closed; a transport left on a closed or null session by a close() that
\* interleaves with an open()) takes calls that overlap.
C30_UnsafeOnlyWhenCallsOverlap ==
    ~threads.overlapped =>
        /\ \A i \in DOMAIN sessions : ~Leaked(i)
        /\ \A th \in DOMAIN threads.of :
               threads.of[th].done = "open" => threads.of[th].raised = "none"
        /\ AllIdle => ~HeldClosed

\* Two open() calls each created a session, the first one is overwritten and
\* was never closed, and an open() has returned to a transport that a
\* concurrent close() leaves on a closed session.
C30_Witness ==
    /\ threads.overlapped
    /\ Len(sessions) >= 2
    /\ \E i \in DOMAIN sessions : Leaked(i)
    /\ HeldClosed
    /\ \E th \in Threads : threads.of[th].pc = "idle" /\ threads.of[th].done = "open"

-----------------------------------------------------------------------------
(* C31: the retry budget of a call *)

\* The budget is a local of the call: between calls no frame is kept, and a
\* call that met a transient failure found the whole budget and took one from
\* it, whatever the calls before it met.
FreshBudget ==
    /\ frame = NoFrame
    /\ MetTransient => pulls.last.retry_total = retry_total - 1

\* C31: the retry budget is not state of the generator: every call starts
\* with the whole budget, so a call that meets a transient failure always has
\* budget left and makes its ranged re-issue, and the re-issues made over the
\* lifetime of the generator are as many as the transient failures met, with
\* no bound of 3.
C31_BudgetPerPullReissuesUnbounded ==
    gen.variant \in Variants =>
        /\ FreshBudget
        /\ Len(pipe.runs) = pulls.transients

-----------------------------------------------------------------------------
(* C32: errors raised inside the handler of a transient failure *)

\* C32: an error raised inside the handler of a transient failure, as by the
\* pull that follows the re-issue, is not handled by the clauses of the same
\* try statement: the call raises it at once, having made at most one
\* re-issue, taken one from the budget and left the raw response open; so a
\* call never goes round the loop again, and it never reaches the branch of
\* the exhausted budget, which would end the loop and return None.
C32_HandlerErrorsPropagateAtOnce ==
    gen.variant \in Variants =>
        /\ frame = NoFrame
        /\ pulls.last.kind # "return"
        /\ pulls.last.kind # "none" => pulls.last.retry_total > 0
        /\ (MetTransient /\ pulls.last.kind = "raise")
           => /\ pulls.last.runs <= 1
              /\ pulls.last.pulls <= 2
              /\ pulls.last.retry_total = retry_total - 1
              /\ pulls.last.closes = 0

\* After a chunk has been emitted, a call met a connection error on its pull
\* and raised out of the handler, with 2 left of its budget of 3 and the raw
\* response open.
C32_Witness ==
    /\ gen.variant \in Variants
    /\ Len(pulls.emitted) >= 1
    /\ pulls.last.met = PullRaise("ConnectionError")
    /\ pulls.last.kind = "raise"
    /\ pulls.last.retry_total = 2
    /\ raw.closes = 0

-----------------------------------------------------------------------------
(* C33: a transport after close() *)

\* The transport holds no session and does not own one.
Closed(a) == tr[a].session = NoSession /\ ~tr[a]._session_owner

\* C33: once close() (or the exit of the context manager) has returned on a
\* transport that owned its session, the transport holds no session and the
\* ownership flag is clear, and it stays so: no operation changes the
\* transport or creates a session any more, and a send that starts in this
\* state makes no HTTP exchange and raises AttributeError, which is neither
\* ServiceRequestError nor ServiceResponseError.
C33_ClosedForGood ==
    /\ [](\A a \in DOMAIN last :
            (/\ last[a].op \in {"close", "exit"}
             /\ last[a].kind = "None"
             /\ last[a].before._session_owner) => Closed(a))
    /\ [][\A a \in DOMAIN tr :
            Closed(a) =>
                /\ tr'[a] = tr[a]
                /\ sessions' = sessions
                /\ last'[a].op = "open" => last'[a].kind = "None"
                /\ (last'[a].op = "send" /\ ~pending[a].active)
                   => /\ last'[a].kind = "AttributeError"
                      /\ last'[a].kind \notin {"ServiceRequestError", "ServiceResponseError"}
                      /\ last'[a].exchanges = <<>>
                      /\ ~pending'[a].active]_vars

\* A transport constructed without a session has created one, closed it, and
\* a later send has failed with AttributeError without an HTTP exchange.
C33_Witness ==
    \E a \in DOMAIN last :
        /\ ctor[a].session = NoSession /\ ctor[a].session_owner
        /\ Len(sessions) = 1 /\ sessions[1].closes = 1
        /\ Closed(a)
        /\ last[a].op = "send"
        /\ last[a].before = [session |-> NoSession, _session_owner |-> FALSE]
        /\ last[a].kind = "AttributeError"
        /\ last[a].exchanges = <<>>

-----------------------------------------------------------------------------
(* C34: close() on an owner that holds no session *)

\* The transport owns its session and holds none.
Unopened(a) == tr[a].session = NoSession /\ tr[a]._session_owner

\* C34: close(), or the exit of the context manager, on a transport that owns
\* its session and holds none raises AttributeError and changes nothing: the
\* ownership flag stays set and the session reference stays None; and an
\* open(), or the entry of the context manager, in that state creates a
\* session and holds it.
C34_CloseWithoutSessionRaises ==
    [][\A a \in DOMAIN tr :
          Unopened(a) =>
              /\ last'[a].op \in {"close", "exit"}
                 => /\ last'[a].kind = "AttributeError"
                    /\ tr'[a] = tr[a]
                    /\ Unopened(a)'
                    /\ sessions' = sessions
              /\ last'[a].op \in {"open", "enter"}
                 => /\ last'[a].kind = "None"
                    /\ Len(sessions') = Len(sessions) + 1
                    /\ tr'[a].session = Len(sessions')
                    /\ tr'[a]._session_owner]_vars

\* A transport constructed without a session has raised AttributeError from
\* the exit of its context manager, and still owns and holds no session.
C34_Witness ==
    \E a \in DOMAIN last :
        /\ ctor[a].session = NoSession /\ ctor[a].session_owner
        /\ last[a].op = "exit"
        /\ last[a].kind = "AttributeError"
        /\ Unopened(a)
        /\ sessions = <<>>

-----------------------------------------------------------------------------
(* C35: the order of the handlers of send *)

\* How a failure of class cls with arguments args ends send when the handlers
\* are tried in the order new-connection error, read timeout, connection
\* error, general request exception: the kind of error raised, or the class
\* itself when no handler takes it.
Precedence(cls, args) ==
    IF "NewConnectionError" \in Bases(cls) THEN "ServiceRequestError"
    ELSE IF "ReadTimeout" \in Bases(cls) THEN "ServiceResponseError"
    ELSE IF "ConnectionError" \in Bases(cls)
         THEN IF args # <<>> /\ args[1] = "ProtocolError"
              THEN "ServiceResponseError"
              ELSE "ServiceRequestError"
    ELSE IF "RequestException" \in Bases(cls) THEN "ServiceRequestError"
    ELSE cls

-----------------------------------------------------------------------------
(* C36: failures of send that no handler takes *)

\* The failure of the HTTP call is an exception of the requests library or a
\* urllib3 NewConnectionError.
Classified(h) ==
    /\ h.type = "exception"
    /\ \/ "RequestException" \in Bases(h.cls)
       \/ "NewConnectionError" \in Bases(h.cls)

\* The options of the send hold one that session.request cannot be called
\* with: a keyword it does not declare, or one the call passes itself.
InvalidOption(kwargs) == ~(DOMAIN PassedThrough(kwargs) \subseteq SessionRequestKeywords)

\* C36: a send whose HTTP call fails with an exception that is neither of the
\* requests library nor a new-connection error raises that exception itself:
\* it carries no wrapped error and there is no response; a send that ends
\* without an HTTP exchange raises AttributeError, on a transport without a
\* session, or TypeError, on an option session.request cannot be called
\* with, unwrapped as well; and ServiceRequestError and ServiceResponseError
\* only ever wrap an exception of the requests library or a new-connection
\* error.
C36_OtherFailuresPropagate ==
    \A a \in DOMAIN last :
        SendEnded(a) =>
            /\ (Sent(a) /\ last[a].http.type = "exception" /\ ~Classified(last[a].http))
               => /\ last[a].kind = last[a].http.cls
                  /\ last[a].error = NoOutcome
                  /\ last[a].status = 0
            /\ ~Sent(a)
               => /\ last[a].kind \in {"AttributeError", "TypeError"}
                  /\ last[a].kind = "AttributeError"
                     => last[a].before = [session |-> NoSession, _session_owner |-> FALSE]
                  /\ last[a].kind = "TypeError" => InvalidOption(last[a].kwargs)
                  /\ last[a].error = NoOutcome
                  /\ last[a].status = 0
            /\ InvalidOption(last[a].kwargs) => ~Sent(a)
            /\ last[a].kind \in {"ServiceRequestError", "ServiceResponseError"}
               => /\ Sent(a)
                  /\ Classified(last[a].http)
                  /\ last[a].error = last[a].http

\* The trio transport has raised the OSError of its HTTP call as it is.
C36_Witness ==
    \E a \in DOMAIN last :
        /\ a = "trio"
        /\ Sent(a)
        /\ last[a].http.type = "exception" /\ last[a].http.cls = "OSError"
        /\ last[a].kind = "OSError"
        /\ last[a].error = NoOutcome

-----------------------------------------------------------------------------
(* C37: an empty chunk from the content iterator *)

\* The signal with which the variant's generator completes.
CompletionOf(variant) ==
    IF variant = "StreamDownloadGenerator" THEN "StopIteration" ELSE "StopAsyncIteration"

\* C37: a call whose pull obtains an empty chunk ends as at the end of the
\* stream: it closes the raw response once and signals completion, whether or
\* not the iterator has chunks left, and delivers nothing: the emitted chunks
\* and the position of the iterator stay as they were; and no emitted chunk
\* is ever empty.
C37_EmptyChunkEndsStream ==
    /\ [](gen.variant \in Variants =>
            /\ \A i \in DOMAIN pulls.emitted : pulls.emitted[i] # <<>>
            /\ pulls.last.met = PullChunk(<<>>)
               => /\ pulls.last.kind = "complete"
                  /\ pulls.last.cls = CompletionOf(gen.variant)
                  /\ pulls.last.chunk = <<>>
                  /\ pulls.last.pulls = 1
                  /\ pulls.last.closes = 1)
    /\ [][pulls'.last.met = PullChunk(<<>>)
            => /\ pulls'.emitted = pulls.emitted
               /\ gen' = gen
               /\ raw' = [raw EXCEPT !.closes = @ + 1]]_vars

\* After the first chunk of a body of 5 bytes in blocks of 2, the iterator
\* yielded an empty chunk: the asyncio generator closed the raw response and
\* signalled completion with two chunks still to come.
C37_Witness ==
    /\ gen.variant = "AsyncioStreamDownloadGenerator"
    /\ Len(raw.body) = 5 /\ gen.block_size = 2
    /\ pulls.emitted = << <<1, 2>> >>
    /\ pulls.last.met = PullChunk(<<>>)
    /\ pulls.last.kind = "complete"
    /\ raw.iter = "live" /\ raw.pos = 1
    /\ raw.closes = 1

-----------------------------------------------------------------------------
(* C38: what a call that raises leaves behind *)

\* The last call met an error on its pull that is neither transient nor
\* StreamConsumedError.
MetUnexpected ==
    /\ pulls.last.met.kind = "raise"
    /\ pulls.last.met.cls \notin TransientNetworkErrors \cup {"StreamConsumedError"}

\* C38: a call that ends with an error leaves the downloaded counter as it
\* found it, and it has closed the raw response only if the error is an
\* unexpected one: a call that met StreamConsumedError, and a call that met a
\* transient failure and raised from its handler, as on a 416 answer to the
\* re-issue, leave the raw response open.
C38_OnlyUnexpectedErrorCloses ==
    (gen.variant \in Variants /\ pulls.last.kind = "raise") =>
        /\ gen.downloaded = pulls.last.downloaded
        /\ pulls.last.closes = IF MetUnexpected THEN 1 ELSE 0
        /\ pulls.last.met.cls = "StreamConsumedError" => pulls.last.closes = 0
        /\ MetTransient => pulls.last.closes = 0

\* A blocking generator that had emitted the first chunk of 2 bytes met
\* StreamConsumedError and raised it: the raw response is still open and the
\* counter still 2.
C38_Witness ==
    /\ gen.variant = "StreamDownloadGenerator"
    /\ gen.block_size = 2
    /\ pulls.emitted = << <<1, 2>> >>
    /\ pulls.last.met = PullRaise("StreamConsumedError")
    /\ pulls.last.kind = "raise" /\ pulls.last.cls = "StreamConsumedError"
    /\ raw.closes = 0
    /\ gen.downloaded = PyInt(2)

-----------------------------------------------------------------------------
(* C39: concurrent sends of the tasks of one loop *)

\* The tasks suspended at the await of send.
Awaiting == {k \in DOMAIN threads.of : threads.of[k].pc = "awaiting"}

\* C39: tasks of one loop that send on one asyncio or trio transport that
\* owns its session create one session between them, however their sends
\* overlap: the session store never holds more than one session, every task
\* suspended in send has bound its call to the session the transport holds,
\* and a step of a task creates a session only when the transport holds none.
C39_TasksShareOneSession ==
    /\ [](/\ Len(sessions) <= 1
          /\ \A a \in DOMAIN tr, k \in Awaiting :
                /\ tr[a].session = 1
                /\ threads.of[k].call.session = tr[a].session)
    /\ [][\A a \in DOMAIN tr :
            Len(sessions') > Len(sessions)
            => /\ tr[a].session = NoSession
               /\ Awaiting = {}
               /\ tr'[a].session = Len(sessions')]_vars

\* Two tasks are suspended in send at the same time, both on the one session
\* that the first of them created.
C39_Witness ==
    /\ threads.overlapped
    /\ Cardinality(Awaiting) >= 2
    /\ Len(sessions) = 1
    /\ \A k \in Awaiting : threads.of[k].call.session = 1
    /\ \A a \in DOMAIN tr : tr[a].session = 1 /\ tr[a]._session_owner

====
